---- MODULE Spec2Model ----
(***************************************************************************)
(* The execution bridge of the zkVM prover (risc0/zkvm/src/prove/exec.rs): *)
(* MachineContext answers the circuit's extern requests one at a time.     *)
(* The state is MachineContext's fields; every request handler is one      *)
(* action.  A panic (assert!, panic!, unimplemented!, index out of bounds) *)
(* aborts trace generation: it is recorded in ret and no request follows.  *)
(***************************************************************************)
EXTENDS Integers, Sequences, FiniteSets, TLC

(***************************************************************************)
(* Bounds of the model.                                                    *)
(***************************************************************************)
MaxInsn == 2        \* insn_counter is explored up to this value
MaxSplit == 1       \* SystemSplit(n) is explored for n in 0..MaxSplit
MaxMainPage == 1    \* page indices of the fault record under Spec
MaxPage == 2        \* page indices of the fault record under SpecPaging
MaxPageLog == 6      \* pageInfo outputs recorded in page_log
MaxDivSmall == 3     \* divide is applied to 0..MaxDivSmall and their negations
MaxSyscalls == 2     \* replay records of a segment under SpecSyscall
MaxPayload == 2      \* data words of one replay record
MaxAccumLen == 3     \* factors written to one accumulator
MaxMsgLen == 4       \* characters of a log format string
MaxLogArgs == 5      \* arguments of a log request
MaxTableLen == 1     \* tuples written to one permutation table
MaxLag == 2          \* requests the second process may be behind the first
WIDTH_BYTES == 4     \* bigint::WIDTH_BYTES, defined outside this source: the width in limbs

(***************************************************************************)
(* Program constants.                                                      *)
(***************************************************************************)
WORD_SIZE == 4
REG_T0 == 5
REG_A0 == 10
SYSTEM_start == 201326592       \* 0x0C00_0000
ecall_HALT == 0
halt_TERMINATE == 0
halt_PAUSE == 1
halt_SPLIT == 2
PageIo == 0                     \* MemoryOp::PageIo as u32
Read == 1                       \* MemoryOp::Read as u32
Write == 2                      \* MemoryOp::Write as u32
BabyBearP == 15 * (2 ^ 27) + 1  \* the field's modulus

\* Instruction words placed in the image, and how OpCode::decode classifies them.
INSN_ECALL == 115               \* 0x00000073
INSN_ADD == 51                  \* 0x00000033
INSN_ILLEGAL == 0

VARIABLES
    buf,            \* memory.ram.buf: byte address -> byte
    faults,         \* faults.reads, faults.writes: sets of page indices
    is_halted,
    is_flushing,
    resident_words, \* word addresses already paged in
    exit_code,      \* the segment's exit code
    insn_counter,
    seg_faults,     \* segment.faults, the record the bridge was built from
    req,            \* the last request: its name and arguments
    ret,            \* the last request's result: kind and outs
    page_io_seen,   \* history: word addresses a PageIo request was issued on
    page_history,   \* whether the two histories of pageInfo below are kept
    page_log,       \* history: outs of the pageInfo requests issued while flushing
    page_unflushed, \* history: a pageInfo request was issued while not flushing
    seg_syscalls,   \* segment.syscalls, the replay records of the segment
    syscall_out_data, \* the data words still to be replayed
    syscall_out_regs, \* the register pairs still to be replayed
    plonk_accum,    \* memory.plonk_accum: accumulator name -> accumulator
    plonk_tables,   \* memory.ram_plonk and bytes_plonk: the tuples written to each
    body_count,     \* history: syscallBody requests issued, counted up to one past the data
    fini_count,     \* history: syscallFini requests that succeeded
    calc_runs,      \* history: calc_prefix_products calls since the last write, up to two
    parked,         \* the segment's second bridge, held while its process waits
    turn,           \* the process that is running: its bridge is in the variables above
    script          \* the requests process 1 has issued and process 2 has yet to issue

vars == <<buf, faults, is_halted, is_flushing, resident_words, exit_code,
          insn_counter, seg_faults, req, ret, page_io_seen, page_history, page_log,
          page_unflushed, seg_syscalls, syscall_out_data, syscall_out_regs,
          plonk_accum, plonk_tables, body_count, fini_count, calc_runs,
          parked, turn, script>>

peers == <<parked, turn, script>>

\* Everything one bridge owns, with the last request of its process and the
\* histories kept of it.
Bridge ==
    [buf |-> buf, faults |-> faults, is_halted |-> is_halted,
     is_flushing |-> is_flushing, resident_words |-> resident_words,
     exit_code |-> exit_code, insn_counter |-> insn_counter,
     syscall_out_data |-> syscall_out_data, syscall_out_regs |-> syscall_out_regs,
     plonk_accum |-> plonk_accum, plonk_tables |-> plonk_tables,
     req |-> req, ret |-> ret, page_io_seen |-> page_io_seen,
     page_history |-> page_history, page_log |-> page_log,
     page_unflushed |-> page_unflushed, body_count |-> body_count,
     fini_count |-> fini_count, calc_runs |-> calc_runs]


(***************************************************************************)
(* Field elements and words.                                               *)
(***************************************************************************)
ToElem(x) == x % BabyBearP

RECURSIVE BitOr(_, _)
BitOr(a, b) ==
    IF a = 0 THEN b
    ELSE IF b = 0 THEN a
    ELSE (IF a % 2 = 1 \/ b % 2 = 1 THEN 1 ELSE 0) + 2 * BitOr(a \div 2, b \div 2)

\* A u32 is held as its four little-endian bytes (TLC's integers are
\* 32-bit signed).  u32_of is the u32 of a number below 2^31.
u32_of(n) ==
    << n % 256, (n \div 256) % 256, (n \div 65536) % 256, (n \div 16777216) % 256 >>

\* split_word8: the four bytes of a u32, each as a field element.
split_word8(value) == << ToElem(value[1]), ToElem(value[2]), ToElem(value[3]),
                         ToElem(value[4]) >>

\* Byte k of (x << 8*j) as u32, for a field element x: bits shifted out are lost.
ShlByte(x, j, k) == IF k < j THEN 0 ELSE (x \div (256 ^ (k - j))) % 256

\* merge_word8: x0 | x1 << 8 | x2 << 16 | x3 << 24.
merge_word8(x) ==
    [k \in 1..4 |->
        BitOr(BitOr(BitOr(ShlByte(x[1], 0, k - 1), ShlByte(x[2], 1, k - 1)),
                    ShlByte(x[3], 2, k - 1)), ShlByte(x[4], 3, k - 1))]

(***************************************************************************)
(* MemoryState: the byte buffer of the image.                              *)
(***************************************************************************)
get_register_addr(idx) == SYSTEM_start + idx * WORD_SIZE

\* The image of the model holds four words: one of code, the registers T0
\* and A0, and one of data.
PcBase == 256 * WORD_SIZE
DataBase == 512 * WORD_SIZE
MemWords == {PcBase, get_register_addr(REG_T0), get_register_addr(REG_A0), DataBase}
MemBytes == UNION {{w + i : i \in 0..(WORD_SIZE - 1)} : w \in MemWords}

\* load_u32 panics on a misaligned address and on an index outside the buffer.
LoadOk(b, addr) ==
    /\ addr % WORD_SIZE = 0
    /\ \A i \in 0..(WORD_SIZE - 1) : (addr + i) \in DOMAIN b

load_u8(b, addr) == b[addr]

\* u32::from_le_bytes of the four bytes at addr.
load_u32(b, addr) ==
    << load_u8(b, addr), load_u8(b, addr + 1), load_u8(b, addr + 2),
       load_u8(b, addr + 3) >>

load_register(b, idx) == load_u32(b, get_register_addr(idx))

store_u8(b, addr, value) == [b EXCEPT ![addr] = value]

store_region(b, addr, slice) ==
    [a \in DOMAIN b |->
        IF a >= addr /\ a < addr + Len(slice) THEN slice[a - addr + 1] ELSE b[a]]

\* value.to_be_bytes() stored as a region.
store_u32_BigEndian(b, addr, value) ==
    store_region(b, addr, [k \in 1..Len(value) |-> value[Len(value) + 1 - k]])

\* value.to_le_bytes() stored as a region.
store_u32(b, addr, value) == store_region(b, addr, value)

(***************************************************************************)
(* OpCode::decode: the major class and minor code of an instruction word,   *)
(* or an error.                                                            *)
(***************************************************************************)
decode(insn) ==
    CASE insn = u32_of(INSN_ECALL) -> [ok |-> TRUE, major |-> "ECall", minor |-> 0]
      [] insn = u32_of(INSN_ADD) -> [ok |-> TRUE, major |-> "Compute0", minor |-> 0]
      [] OTHER -> [ok |-> FALSE, major |-> "None", minor |-> 0]

(***************************************************************************)
(* Request results.                                                        *)
(***************************************************************************)
Req(name, args) == [name |-> name, args |-> args]
Ok(outs) == [kind |-> "ok", outs |-> outs]
Err == [kind |-> "err", outs |-> <<>>]
Fatal == [kind |-> "fatal", outs |-> <<>>]
Running == ret.kind # "fatal"

Max(S) == CHOOSE x \in S : \A y \in S : y <= x
Min(S) == CHOOSE x \in S : \A y \in S : x <= y

\* The read faults popped from the bottom of the set.
pop_last_Lowest(S) == Min(S)

\* BTreeSet::pop_last and pop_first: the element removed.
pop_last(S) == Max(S)
pop_first(S) == Min(S)

(***************************************************************************)
(* Inputs of the requests.                                                 *)
(***************************************************************************)
PcSet == {PcBase, PcBase + 2}
HaltCodes == {halt_TERMINATE, halt_PAUSE, halt_SPLIT, halt_SPLIT + 1}
RamAddrs == {get_register_addr(REG_A0) \div WORD_SIZE, DataBase \div WORD_SIZE}
MemOps == {PageIo, Read, Write}
DataLimbs == {<<1, 2, 0, 0>>}

ExitCodes ==
    {[kind |-> k, n |-> 0] : k \in {"Terminate", "Pause"}}
        \cup {[kind |-> "SystemSplit", n |-> n] : n \in 0..MaxSplit}

\* The pre-image: code word, T0, A0 and a zero data word.
MkImage(code, t0, a0) ==
    LET words == [w \in MemWords |->
                    IF w = PcBase THEN code
                    ELSE IF w = get_register_addr(REG_T0) THEN t0
                    ELSE IF w = get_register_addr(REG_A0) THEN a0
                    ELSE 0]
    IN [a \in MemBytes |->
          u32_of(words[a - (a % WORD_SIZE)])[(a % WORD_SIZE) + 1]]

Images ==
    {MkImage(c, t, halt_PAUSE) : c \in {INSN_ECALL, INSN_ADD, INSN_ILLEGAL},
                                 t \in {ecall_HALT, ecall_HALT + 2}}

FaultRecords(n) == [reads : SUBSET (1..n), writes : SUBSET (1..n)]

(***************************************************************************)
(* MachineContext::new                                                     *)
(***************************************************************************)
\* The payloads of the records, concatenated in record order.
RECURSIVE flat_to_guest(_)
flat_to_guest(sc) ==
    IF sc = <<>> THEN <<>> ELSE Head(sc).to_guest \o flat_to_guest(Tail(sc))

new(image, f, ec, sc, keep) ==
    /\ buf = image
    /\ faults = f
    /\ seg_faults = f
    /\ is_halted = FALSE
    /\ is_flushing = FALSE
    /\ resident_words = {}
    /\ exit_code = ec
    /\ insn_counter = 0
    /\ req = [name |-> "none", args |-> <<>>]
    /\ ret = [kind |-> "none", outs |-> <<>>]
    /\ page_io_seen = {}
    /\ page_history = keep
    /\ page_log = <<>>
    /\ page_unflushed = FALSE
    /\ seg_syscalls = sc
    /\ syscall_out_data = flat_to_guest(sc)
    /\ syscall_out_regs = [k \in 1..Len(sc) |-> sc[k].regs]
    /\ plonk_accum = <<>>
    /\ plonk_tables = [ram |-> <<>>, bytes |-> <<>>]
    /\ body_count = 0
    /\ fini_count = 0
    /\ calc_runs = 0
    /\ parked = Bridge
    /\ turn = 1
    /\ script = <<>>

Init ==
    \E image \in Images, f \in FaultRecords(MaxMainPage), ec \in ExitCodes :
        new(image, f, ec, <<>>, FALSE)

history == <<page_io_seen, page_history, page_log, page_unflushed>>
segment == <<exit_code, seg_faults, seg_syscalls>>
replay == <<syscall_out_data, syscall_out_regs, body_count, fini_count>>
accums == <<plonk_accum, calc_runs>>
tables == <<plonk_tables>>

\* A panic: the pass is aborted with the state as the handler left it.
abort == ret' = Fatal

(***************************************************************************)
(* MachineContext::halt                                                    *)
(***************************************************************************)
\* is_flushing assigned from the exit code instead of only set.
halt_Resets(code) ==
    /\ Running
    /\ req' = Req("halt", <<code>>)
    /\ IF is_halted
       THEN /\ ret' = Ok(<<>>)
            /\ UNCHANGED <<is_halted, is_flushing>>
       ELSE IF code \notin {halt_TERMINATE, halt_PAUSE, halt_SPLIT}
       THEN /\ abort
            /\ UNCHANGED <<is_halted, is_flushing>>
       ELSE /\ is_flushing' = (code = halt_PAUSE)
            /\ is_halted' = TRUE
            /\ ret' = Ok(<<>>)
    /\ UNCHANGED <<buf, faults, resident_words, insn_counter, segment, history,
                   replay, accums, tables>>

\* is_halted set before the exit code is looked at.
halt_MarksFirst(code) ==
    /\ Running
    /\ req' = Req("halt", <<code>>)
    /\ IF is_halted
       THEN /\ ret' = Ok(<<>>)
            /\ UNCHANGED <<is_halted, is_flushing>>
       ELSE IF code \notin {halt_TERMINATE, halt_PAUSE, halt_SPLIT}
       THEN /\ abort
            /\ is_halted' = TRUE
            /\ UNCHANGED is_flushing
       ELSE /\ is_flushing' = (is_flushing \/ code = halt_PAUSE)
            /\ is_halted' = TRUE
            /\ ret' = Ok(<<>>)
    /\ UNCHANGED <<buf, faults, resident_words, insn_counter, segment, history,
                   replay, accums, tables>>

\* The exit code handled again on a bridge that is already halted.
halt_Unguarded(code) ==
    /\ Running
    /\ req' = Req("halt", <<code>>)
    /\ IF code \notin {halt_TERMINATE, halt_PAUSE, halt_SPLIT}
       THEN /\ abort
            /\ UNCHANGED <<is_halted, is_flushing>>
       ELSE /\ is_flushing' = (is_flushing \/ code = halt_PAUSE)
            /\ is_halted' = TRUE
            /\ ret' = Ok(<<>>)
    /\ UNCHANGED <<buf, faults, resident_words, insn_counter, segment, history,
                   replay, accums, tables>>

halt(code) ==
    /\ Running
    /\ req' = Req("halt", <<code>>)
    /\ IF is_halted
       THEN /\ ret' = Ok(<<>>)
            /\ UNCHANGED <<is_halted, is_flushing>>
       ELSE IF code \notin {halt_TERMINATE, halt_PAUSE, halt_SPLIT}
       THEN /\ abort
            /\ UNCHANGED <<is_halted, is_flushing>>
       ELSE /\ is_flushing' = (is_flushing \/ code = halt_PAUSE)
            /\ is_halted' = TRUE
            /\ ret' = Ok(<<>>)
    /\ UNCHANGED <<buf, faults, resident_words, insn_counter, segment, history,
                   replay, accums, tables>>

(***************************************************************************)
(* MachineContext::get_major                                               *)
(***************************************************************************)
\* The mode tested without the minor code.
EcallPause_AnyMinor(b, opcode) ==
    /\ opcode.major = "ECall"
    /\ load_register(b, REG_A0) = u32_of(halt_PAUSE)

\* An ECALL whose minor code (T0) is HALT and whose mode (A0) is PAUSE.  The
\* registers lie inside every image (MemWords), so their loads do not panic.
EcallPause(b, opcode) ==
    /\ opcode.major = "ECall"
    /\ load_register(b, REG_T0) = u32_of(ecall_HALT)
    /\ load_register(b, REG_A0) = u32_of(halt_PAUSE)

\* The flush forced one instruction late.
SplitReached_Late(ec, counter) == ec.kind = "SystemSplit" /\ counter = ec.n + 1

\* The split instruction never forces the flush.
SplitReached_Never(ec, counter) == FALSE

\* The instruction counter has reached the split instruction of SystemSplit.
SplitReached(ec, counter) == ec.kind = "SystemSplit" /\ counter = ec.n

\* The early return on is_flushing left out.
FaultGate_ReadsOnly(reads, flushing) == reads # {}

\* Only the flushing bridge returns PageFault.
FaultGate_FlushOnly(reads, flushing) == flushing

\* The two early returns of PageFault.
FaultGate(reads, flushing) == reads # {} \/ flushing

\* is_flushing taken from this request alone, not kept from earlier ones.
get_major_FlushOnce(pc) ==
    /\ Running
    /\ req' = Req("getMajor", <<pc>>)
    /\ IF ~LoadOk(buf, pc)
       THEN /\ abort
            /\ UNCHANGED <<is_flushing, insn_counter>>
       ELSE LET opcode == decode(load_u32(buf, pc)) IN
            IF ~opcode.ok
            THEN /\ ret' = Err
                 /\ UNCHANGED <<is_flushing, insn_counter>>
            ELSE LET flushing == \/ EcallPause(buf, opcode)
                                 \/ SplitReached(exit_code, insn_counter)
                 IN /\ is_flushing' = flushing
                    /\ IF FaultGate(faults.reads, flushing)
                       THEN /\ ret' = Ok(<<"PageFault">>)
                            /\ UNCHANGED insn_counter
                       ELSE /\ insn_counter < MaxInsn
                            /\ insn_counter' = insn_counter + 1
                            /\ ret' = Ok(<<opcode.major>>)
    /\ UNCHANGED <<buf, faults, is_halted, resident_words, segment, history,
                   replay, accums, tables>>

\* is_flushing set before the instruction is decoded.
get_major_ErrFlushes(pc) ==
    /\ Running
    /\ req' = Req("getMajor", <<pc>>)
    /\ IF ~LoadOk(buf, pc)
       THEN /\ abort
            /\ UNCHANGED <<is_flushing, insn_counter>>
       ELSE LET opcode == decode(load_u32(buf, pc)) IN
            IF ~opcode.ok
            THEN /\ ret' = Err
                 /\ is_flushing' = TRUE
                 /\ UNCHANGED insn_counter
            ELSE LET flushing == \/ is_flushing
                                 \/ EcallPause(buf, opcode)
                                 \/ SplitReached(exit_code, insn_counter)
                 IN /\ is_flushing' = flushing
                    /\ IF FaultGate(faults.reads, flushing)
                       THEN /\ ret' = Ok(<<"PageFault">>)
                            /\ UNCHANGED insn_counter
                       ELSE /\ insn_counter < MaxInsn
                            /\ insn_counter' = insn_counter + 1
                            /\ ret' = Ok(<<opcode.major>>)
    /\ UNCHANGED <<buf, faults, is_halted, resident_words, segment, history,
                   replay, accums, tables>>

\* insn_counter advanced before the two early returns.
get_major_CountsFaults(pc) ==
    /\ Running
    /\ req' = Req("getMajor", <<pc>>)
    /\ IF ~LoadOk(buf, pc)
       THEN /\ abort
            /\ UNCHANGED <<is_flushing, insn_counter>>
       ELSE LET opcode == decode(load_u32(buf, pc)) IN
            IF ~opcode.ok
            THEN /\ ret' = Err
                 /\ UNCHANGED <<is_flushing, insn_counter>>
            ELSE LET flushing == \/ is_flushing
                                 \/ EcallPause(buf, opcode)
                                 \/ SplitReached(exit_code, insn_counter)
                 IN /\ is_flushing' = flushing
                    /\ insn_counter < MaxInsn
                    /\ insn_counter' = insn_counter + 1
                    /\ IF FaultGate(faults.reads, flushing)
                       THEN ret' = Ok(<<"PageFault">>)
                       ELSE ret' = Ok(<<opcode.major>>)
    /\ UNCHANGED <<buf, faults, is_halted, resident_words, segment, history,
                   replay, accums, tables>>

\* The step that would take insn_counter past MaxInsn is not explored.
get_major(pc) ==
    /\ Running
    /\ req' = Req("getMajor", <<pc>>)
    /\ IF ~LoadOk(buf, pc)
       THEN /\ abort
            /\ UNCHANGED <<is_flushing, insn_counter>>
       ELSE LET opcode == decode(load_u32(buf, pc)) IN
            IF ~opcode.ok
            THEN /\ ret' = Err
                 /\ UNCHANGED <<is_flushing, insn_counter>>
            ELSE LET flushing == \/ is_flushing
                                 \/ EcallPause(buf, opcode)
                                 \/ SplitReached(exit_code, insn_counter)
                 IN /\ is_flushing' = flushing
                    /\ IF FaultGate(faults.reads, flushing)
                       THEN /\ ret' = Ok(<<"PageFault">>)
                            /\ UNCHANGED insn_counter
                       ELSE /\ insn_counter < MaxInsn
                            /\ insn_counter' = insn_counter + 1
                            /\ ret' = Ok(<<opcode.major>>)
    /\ UNCHANGED <<buf, faults, is_halted, resident_words, segment, history,
                   replay, accums, tables>>

(***************************************************************************)
(* MachineContext::page_info                                               *)
(***************************************************************************)
\* A write fault reported although is_flushing is false.
page_info_result_Unflushed(f, flushing) ==
    IF f.reads # {}
    THEN [outs |-> <<1, ToElem(pop_last(f.reads)), 0>>,
          faults |-> [f EXCEPT !.reads = @ \ {pop_last(f.reads)}]]
    ELSE IF f.writes # {}
    THEN [outs |-> <<0, ToElem(pop_first(f.writes)), 0>>,
          faults |-> [f EXCEPT !.writes = @ \ {pop_first(f.writes)}]]
    ELSE [outs |-> <<0, 0, 1>>, faults |-> f]

\* A read fault reported and left in its queue.
page_info_result_Keeps(f, flushing) ==
    IF f.reads # {}
    THEN [outs |-> <<1, ToElem(pop_last(f.reads)), 0>>, faults |-> f]
    ELSE IF flushing /\ f.writes # {}
    THEN [outs |-> <<0, ToElem(pop_first(f.writes)), 0>>,
          faults |-> [f EXCEPT !.writes = @ \ {pop_first(f.writes)}]]
    ELSE [outs |-> <<0, 0, 1>>, faults |-> f]

\* The outs of a pageInfo request and the fault queues it leaves.
page_info_result(f, flushing) ==
    IF f.reads # {}
    THEN [outs |-> <<1, ToElem(pop_last(f.reads)), 0>>,
          faults |-> [f EXCEPT !.reads = @ \ {pop_last(f.reads)}]]
    ELSE IF flushing /\ f.writes # {}
    THEN [outs |-> <<0, ToElem(pop_first(f.writes)), 0>>,
          faults |-> [f EXCEPT !.writes = @ \ {pop_first(f.writes)}]]
    ELSE [outs |-> <<0, 0, 1>>, faults |-> f]

\* A pageInfo that pops the segment's own fault record instead of a copy.
page_info_Borrowed ==
    /\ Running
    /\ req' = Req("pageInfo", <<>>)
    /\ ret' = Ok(page_info_result(faults, is_flushing).outs)
    /\ faults' = page_info_result(faults, is_flushing).faults
    /\ seg_faults' = faults'
    /\ page_log' = IF page_history /\ is_flushing /\ Len(page_log) < MaxPageLog
                   THEN Append(page_log, page_info_result(faults, is_flushing).outs)
                   ELSE page_log
    /\ page_unflushed' = (page_unflushed \/ (page_history /\ ~is_flushing))
    /\ UNCHANGED <<buf, is_halted, is_flushing, resident_words, insn_counter,
                   exit_code, seg_syscalls, page_io_seen, page_history, replay,
                   accums, tables>>

page_info ==
    /\ Running
    /\ req' = Req("pageInfo", <<>>)
    /\ ret' = Ok(page_info_result(faults, is_flushing).outs)
    /\ faults' = page_info_result(faults, is_flushing).faults
    /\ page_log' = IF page_history /\ is_flushing /\ Len(page_log) < MaxPageLog
                   THEN Append(page_log, page_info_result(faults, is_flushing).outs)
                   ELSE page_log
    /\ page_unflushed' = (page_unflushed \/ (page_history /\ ~is_flushing))
    /\ UNCHANGED <<buf, is_halted, is_flushing, resident_words, insn_counter,
                   segment, page_io_seen, page_history, replay, accums, tables>>

(***************************************************************************)
(* MachineContext::ram_read and ram_write                                  *)
(***************************************************************************)
\* The residency check of ram_read left out.
read_before_page_in_Off(resident, addr, op) == FALSE

\* ram_read's panic: a non-paging read of a word that is not resident.  addr
\* is a word address; the byte address addr * WORD_SIZE of every address in
\* RamAddrs fits a u32.
read_before_page_in(resident, addr, op) == op # PageIo /\ addr \notin resident

\* The residency check of ram_write left out.
write_before_page_in_Off(resident, addr, op) == FALSE

\* ram_write's assert!: a non-paging write of a word that is not resident.
write_before_page_in(resident, addr, op) == op # PageIo /\ addr \notin resident

\* A read that is no page-in takes the word out of the resident set.
ram_read_Evicts(addr, op) ==
    /\ Running
    /\ req' = Req("ramRead", <<addr, op>>)
    /\ resident_words' = IF op = PageIo THEN resident_words \cup {addr}
                         ELSE resident_words \ {addr}
    /\ page_io_seen' = IF op = PageIo THEN page_io_seen \cup {addr}
                       ELSE page_io_seen
    /\ IF read_before_page_in(resident_words, addr, op)
       THEN abort
       ELSE IF ~LoadOk(buf, addr * WORD_SIZE)
       THEN abort
       ELSE ret' = Ok(split_word8(load_u32(buf, addr * WORD_SIZE)))
    /\ UNCHANGED <<buf, faults, is_halted, is_flushing, insn_counter, segment,
                   replay, accums, tables,
                   page_history, page_log, page_unflushed>>

ram_read(addr, op) ==
    /\ Running
    /\ req' = Req("ramRead", <<addr, op>>)
    /\ resident_words' = IF op = PageIo THEN resident_words \cup {addr}
                         ELSE resident_words
    /\ page_io_seen' = IF op = PageIo THEN page_io_seen \cup {addr}
                       ELSE page_io_seen
    /\ IF read_before_page_in(resident_words, addr, op)
       THEN abort
       ELSE IF ~LoadOk(buf, addr * WORD_SIZE)
       THEN abort
       ELSE ret' = Ok(split_word8(load_u32(buf, addr * WORD_SIZE)))
    /\ UNCHANGED <<buf, faults, is_halted, is_flushing, insn_counter, segment,
                   replay, accums, tables,
                   page_history, page_log, page_unflushed>>

ram_write(addr, data, op) ==
    /\ Running
    /\ req' = Req("ramWrite", <<addr, op, data>>)
    /\ resident_words' = IF op = PageIo THEN resident_words \cup {addr}
                         ELSE resident_words
    /\ page_io_seen' = IF op = PageIo THEN page_io_seen \cup {addr}
                       ELSE page_io_seen
    /\ IF write_before_page_in(resident_words, addr, op)
       THEN abort /\ UNCHANGED buf
       ELSE IF ~LoadOk(buf, addr * WORD_SIZE)
       THEN abort /\ UNCHANGED buf
       ELSE /\ buf' = store_u32(buf, addr * WORD_SIZE, merge_word8(data))
            /\ ret' = Ok(<<>>)
    /\ UNCHANGED <<faults, is_halted, is_flushing, insn_counter, segment,
                   replay, accums, tables,
                   page_history, page_log, page_unflushed>>

(***************************************************************************)
(* CircuitStepHandler::call: one request per step.                         *)
(***************************************************************************)
Halt == \E code \in HaltCodes : halt(code) /\ UNCHANGED peers
GetMajor == \E pc \in PcSet : get_major(pc) /\ UNCHANGED peers
PageInfo == page_info /\ UNCHANGED peers
RamRead == \E addr \in RamAddrs, op \in MemOps : ram_read(addr, op) /\ UNCHANGED peers
RamWrite == \E addr \in RamAddrs, data \in DataLimbs, op \in MemOps :
              ram_write(addr, data, op) /\ UNCHANGED peers

Next == Halt \/ GetMajor \/ PageInfo \/ RamRead \/ RamWrite

Spec == Init /\ [][Next]_vars

\* The same bridge built from segments with larger fault records.
InitPaging ==
    \E f \in FaultRecords(MaxPage) \cup {[reads |-> {3, 1, 4}, writes |-> {2, 5}]} :
        new(MkImage(INSN_ECALL, ecall_HALT, halt_PAUSE), f,
            [kind |-> "Pause", n |-> 0], <<>>, TRUE)

SpecPaging == InitPaging /\ [][Next]_vars

(***************************************************************************)
(* Arithmetic on limbs: a natural number as its base-256 digits, least     *)
(* significant first.  A u32 is such a number of four limbs.               *)
(***************************************************************************)
zeros(n) == [k \in 1..n |-> 0]

\* x + y + c on limbs of one length, the carry out of the top limb dropped.
RECURSIVE limbs_add(_, _, _)
limbs_add(x, y, c) ==
    IF Len(x) = 0 THEN <<>>
    ELSE LET t == Head(x) + Head(y) + c
         IN <<t % 256>> \o limbs_add(Tail(x), Tail(y), t \div 256)

\* x - y - b on limbs of one length, modulo 256^Len(x).
RECURSIVE limbs_sub(_, _, _)
limbs_sub(x, y, b) ==
    IF Len(x) = 0 THEN <<>>
    ELSE LET t == Head(x) - Head(y) - b
         IN <<(t + 256) % 256>> \o limbs_sub(Tail(x), Tail(y), IF t < 0 THEN 1 ELSE 0)

\* x < y on limbs of one length.
RECURSIVE limbs_less(_, _)
limbs_less(x, y) ==
    IF Len(x) = 0 THEN FALSE
    ELSE LET n == Len(x)
         IN IF x[n] # y[n] THEN x[n] < y[n]
            ELSE limbs_less(SubSeq(x, 1, n - 1), SubSeq(y, 1, n - 1))

\* !x on a u32.
not_u32(x) == [k \in 1..4 |-> 255 - x[k]]

\* x.overflowing_add(c).0 on a u32, for a number c below 2^31.
overflowing_add(x, c) == limbs_add(x, u32_of(c), 0)

\* (x as i32) < 0
as_i32_negative(x) == x[4] >= 128

\* Bit k of a u32, and the u32 with bit k set.
bit_of(x, k) == (x[(k \div 8) + 1] \div (2 ^ (k % 8))) % 2
with_bit(x, k) == [x EXCEPT ![(k \div 8) + 1] = @ + 2 ^ (k % 8)]

\* numer / denom and numer % denom on u32, denom # 0: long division, one
\* bit of the numerator per step from bit k down; rem and denom5 have five limbs.
RECURSIVE div_rem_from(_, _, _, _, _)
div_rem_from(numer, denom5, k, quot, rem) ==
    IF k < 0 THEN <<quot, SubSeq(rem, 1, 4)>>
    ELSE LET r2 == limbs_add(rem, rem, bit_of(numer, k))
         IN IF limbs_less(r2, denom5)
            THEN div_rem_from(numer, denom5, k - 1, quot, r2)
            ELSE div_rem_from(numer, denom5, k - 1, with_bit(quot, k),
                              limbs_sub(r2, denom5, 0))

div_rem(numer, denom) == div_rem_from(numer, denom \o <<0>>, 31, zeros(4), zeros(5))

(***************************************************************************)
(* MachineContext::divide                                                  *)
(***************************************************************************)
b2u(p) == IF p THEN 1 ELSE 0

\* (!x).overflowing_add(1 - ones_comp).0
negate(x, ones_comp) == overflowing_add(not_u32(x), 1 - ones_comp)

\* The remainder returned as the magnitude it was computed as.
divide_RemMagnitude(numer_limbs, denom_limbs, sign_elem) ==
    LET numer0 == merge_word8(numer_limbs)
        denom0 == merge_word8(denom_limbs)
        sign == sign_elem
        ones_comp == b2u(sign = 2)
        neg_numer == sign # 0 /\ as_i32_negative(numer0)
        neg_denom == sign = 1 /\ as_i32_negative(denom0)
        numer == IF neg_numer THEN negate(numer0, ones_comp) ELSE numer0
        denom == IF neg_denom THEN negate(denom0, ones_comp) ELSE denom0
        qr == IF denom = zeros(4) THEN <<not_u32(zeros(4)), numer>>
              ELSE div_rem(numer, denom)
        quot_neg_out == ((b2u(neg_numer) + b2u(neg_denom)) % 2)
                            - (b2u(denom = zeros(4)) * b2u(neg_numer))
        quot == IF quot_neg_out # 0 THEN negate(qr[1], ones_comp) ELSE qr[1]
        rem == qr[2]
    IN  <<split_word8(quot), split_word8(rem)>>

\* The quotient of a zero divisor negated along with the other quotients.
divide_ZeroNegated(numer_limbs, denom_limbs, sign_elem) ==
    LET numer0 == merge_word8(numer_limbs)
        denom0 == merge_word8(denom_limbs)
        sign == sign_elem
        ones_comp == b2u(sign = 2)
        neg_numer == sign # 0 /\ as_i32_negative(numer0)
        neg_denom == sign = 1 /\ as_i32_negative(denom0)
        numer == IF neg_numer THEN negate(numer0, ones_comp) ELSE numer0
        denom == IF neg_denom THEN negate(denom0, ones_comp) ELSE denom0
        qr == IF denom = zeros(4) THEN <<not_u32(zeros(4)), numer>>
              ELSE div_rem(numer, denom)
        quot_neg_out == (b2u(neg_numer) + b2u(neg_denom)) % 2
        quot == IF quot_neg_out # 0 THEN negate(qr[1], ones_comp) ELSE qr[1]
        rem == IF neg_numer THEN negate(qr[2], ones_comp) ELSE qr[2]
    IN  <<split_word8(quot), split_word8(rem)>>

\* Sign mode 2 negating as mode 1 does, with the +1.
divide_TwosComplement(numer_limbs, denom_limbs, sign_elem) ==
    LET numer0 == merge_word8(numer_limbs)
        denom0 == merge_word8(denom_limbs)
        sign == sign_elem
        ones_comp == 0
        neg_numer == sign # 0 /\ as_i32_negative(numer0)
        neg_denom == sign = 1 /\ as_i32_negative(denom0)
        numer == IF neg_numer THEN negate(numer0, ones_comp) ELSE numer0
        denom == IF neg_denom THEN negate(denom0, ones_comp) ELSE denom0
        qr == IF denom = zeros(4) THEN <<not_u32(zeros(4)), numer>>
              ELSE div_rem(numer, denom)
        quot_neg_out == ((b2u(neg_numer) + b2u(neg_denom)) % 2)
                            - (b2u(denom = zeros(4)) * b2u(neg_numer))
        quot == IF quot_neg_out # 0 THEN negate(qr[1], ones_comp) ELSE qr[1]
        rem == IF neg_numer THEN negate(qr[2], ones_comp) ELSE qr[2]
    IN  <<split_word8(quot), split_word8(rem)>>

\* The quotient and the remainder, each as four limbs.  quot_neg_out is a
\* u32 difference in the code; its second term is 1 only when the first is.
divide(numer_limbs, denom_limbs, sign_elem) ==
    LET numer0 == merge_word8(numer_limbs)
        denom0 == merge_word8(denom_limbs)
        sign == sign_elem
        ones_comp == b2u(sign = 2)
        neg_numer == sign # 0 /\ as_i32_negative(numer0)
        neg_denom == sign = 1 /\ as_i32_negative(denom0)
        numer == IF neg_numer THEN negate(numer0, ones_comp) ELSE numer0
        denom == IF neg_denom THEN negate(denom0, ones_comp) ELSE denom0
        qr == IF denom = zeros(4) THEN <<not_u32(zeros(4)), numer>>
              ELSE div_rem(numer, denom)
        quot_neg_out == ((b2u(neg_numer) + b2u(neg_denom)) % 2)
                            - (b2u(denom = zeros(4)) * b2u(neg_numer))
        quot == IF quot_neg_out # 0 THEN negate(qr[1], ones_comp) ELSE qr[1]
        rem == IF neg_numer THEN negate(qr[2], ones_comp) ELSE qr[2]
    IN  <<split_word8(quot), split_word8(rem)>>

\* "divide" in call: the quotient in outs[0..4], the remainder in outs[4..8].
divide_request(numer, denom, sign) ==
    /\ Running
    /\ req' = Req("divide", <<numer, denom, sign>>)
    /\ ret' = Ok(divide(numer, denom, sign)[1] \o divide(numer, denom, sign)[2])
    /\ UNCHANGED <<buf, faults, is_halted, is_flushing, resident_words,
                   insn_counter, segment, history, replay, accums, tables>>

\* The words divided: the small numbers and their negations, the ends of
\* the i32 range, and two words with every limb in use.
INT_MIN == <<0, 0, 0, 128>>
INT_MAX == <<255, 255, 255, 127>>
DivWords ==
    {u32_of(k) : k \in 0..MaxDivSmall}
        \cup {negate(u32_of(k), 0) : k \in 1..MaxDivSmall}
        \cup {INT_MIN, INT_MAX, negate(INT_MAX, 0), <<120, 86, 52, 18>>,
              <<0, 0, 1, 0>>, <<17, 34, 51, 196>>}
SignModes == {0, 1, 2}

Divide == \E numer \in DivWords, denom \in DivWords, sign \in SignModes :
              divide_request(numer, denom, sign) /\ UNCHANGED peers

\* The bridge of one segment, for the requests that compute from their
\* arguments alone.
InitOne ==
    new(MkImage(INSN_ECALL, ecall_HALT, halt_PAUSE), [reads |-> {}, writes |-> {}],
        [kind |-> "Pause", n |-> 0], <<>>, FALSE)

\* divide computes from its arguments alone: passes of one request cover it.
FirstRequest == req.name = "none"
DivideOnce == FirstRequest /\ Divide

SpecDivide == InitOne /\ [][DivideOnce]_vars

(***************************************************************************)
(* MachineContext::bigint_divide                                           *)
(***************************************************************************)
\* A working buffer [0u64; len] filled from the elements: indices 0..len-1.
buffer_of(len, elems) ==
    [i \in 0..(len - 1) |-> IF i < Len(elems) THEN elems[i + 1] ELSE 0]

\* while n > 0 && b[n - 1] == 0 { n -= 1 }
RECURSIVE denominator_width(_, _)
denominator_width(b, n) ==
    IF n > 0 /\ b[n - 1] = 0 THEN denominator_width(b, n - 1) ELSE n

\* while (top & (0x80 >> shift_bits)) == 0 { shift_bits += 1 }
RECURSIVE leading_zero_bits(_, _)
leading_zero_bits(top, shift_bits) ==
    IF (top \div (2 ^ (7 - shift_bits))) % 2 = 0
    THEN leading_zero_bits(top, shift_bits + 1)
    ELSE shift_bits

\* for i in i..to { tmp = (x[i] << shift_bits) + carry; x[i] = tmp & 0xFF;
\* carry = tmp >> 8 }
RECURSIVE shift_limbs(_, _, _, _, _)
shift_limbs(x, i, to, shift_bits, carry) ==
    IF i >= to THEN [buf |-> x, carry |-> carry]
    ELSE LET tmp == x[i] * (2 ^ shift_bits) + carry
         IN shift_limbs([x EXCEPT ![i] = tmp % 256], i + 1, to, shift_bits,
                        tmp \div 256)

\* while q_approx * btop > atop { q_approx -= 1 }
RECURSIVE correct_q(_, _, _)
correct_q(q_approx, btop, atop) ==
    IF q_approx * btop > atop THEN correct_q(q_approx - 1, btop, atop) ELSE q_approx

\* for j in j..=n: a[i + j] less the low byte of q_approx * b[j] + borrow.
RECURSIVE sub_multiple(_, _, _, _, _, _, _)
sub_multiple(a, b, i, n, j, q_approx, borrow) ==
    IF j > n THEN [buf |-> a, borrow |-> borrow]
    ELSE LET sub == q_approx * b[j] + borrow
             low == sub % 256
         IN IF a[i + j] < low
            THEN sub_multiple([a EXCEPT ![i + j] = @ + 256 - low], b, i, n, j + 1,
                              q_approx, (sub \div 256) + 1)
            ELSE sub_multiple([a EXCEPT ![i + j] = @ - low], b, i, n, j + 1,
                              q_approx, sub \div 256)

\* for j in j..=n: a[i + j] plus b[j] plus carry.
RECURSIVE add_back(_, _, _, _, _, _)
add_back(a, b, i, n, j, carry) ==
    IF j > n THEN [buf |-> a, carry |-> carry]
    ELSE LET tmp == a[i + j] + b[j] + carry
         IN add_back([a EXCEPT ![i + j] = tmp % 256], b, i, n, j + 1, tmp \div 256)

bigint_err == [kind |-> "err", q |-> <<>>, r |-> <<>>]
bigint_panic == [kind |-> "fatal", q |-> <<>>, r |-> <<>>]

\* for i in (0..=m).rev(): one limb of the quotient per turn, from i down.
\* a[i + n] is the first index of the turn and the highest; an index outside
\* the buffer panics.
RECURSIVE quotient_digits(_, _, _, _, _)
quotient_digits(a, b, q, n, i) ==
    IF i < 0 THEN [kind |-> "ok", q |-> q, r |-> a]
    ELSE IF (i + n) \notin DOMAIN a THEN bigint_panic
    ELSE LET q0 == Min({(a[i + n] * 256 + a[i + n - 1]) \div b[n - 1], 255})
             q1 == correct_q(q0, b[n - 1] * 256 + b[n - 2],
                             a[i + n] * 65536 + a[i + n - 1] * 256 + a[i + n - 2])
             s == sub_multiple(a, b, i, n, 0, q1, 0)
             back == add_back(s.buf, b, i, n, 0, 0)
             q_approx == IF s.borrow > 0 THEN q1 - 1 ELSE q1
             a2 == IF s.borrow > 0 THEN back.buf ELSE s.buf
         IN IF s.borrow > 0 /\ s.borrow - back.carry # 0 THEN bigint_panic
            ELSE IF i \in DOMAIN q
            THEN quotient_digits(a2, b, [q EXCEPT ![i] = q_approx], n, i - 1)
            ELSE IF q_approx # 0 THEN bigint_err
            ELSE quotient_digits(a2, b, q, n, i - 1)

\* The numerator shifted: limbs 0 .. a.len() - 2 are shifted with the carry
\* passed up, and a[a.len() - 1] = carry replaces the top limb.
normalize_numer(a, shift_bits, carry) ==
    LET a_len == WIDTH_BYTES * 2
        as == shift_limbs(a, 0, a_len - 1, shift_bits, carry)
    IN  [as.buf EXCEPT ![a_len - 1] = as.carry]

\* The indices of a that the digit loop reads or writes: a[i + n],
\* a[i + n - 1], a[i + n - 2] and a[i + j] for i in 0..=m and j in 0..=n.
digit_loop_indices(n) ==
    LET m == WIDTH_BYTES * 2 - n
    IN  UNION {{i + n - 2, i + n - 1, i + n} \cup {i + j : j \in 0..n} : i \in 0..m}

\* The division once the denominator is n >= 2 limbs wide: shift, divide,
\* shift the remainder back.
bigint_divide_wide(a, b, q, n) ==
    LET a_len == WIDTH_BYTES * 2
        m == a_len - n
        shift_bits == leading_zero_bits(b[n - 1], 0)
        bs == shift_limbs(b, 0, n, shift_bits, 0)
        a1 == normalize_numer(a, shift_bits, bs.carry)
        d == quotient_digits(a1, bs.buf, q, n, m)
        mask == (2 ^ shift_bits) - 1
        r == [i \in 0..(WIDTH_BYTES - 1) |->
                IF i < n
                THEN (d.r[i] \div (2 ^ shift_bits))
                        + ((d.r[i + 1] % (mask + 1)) * (2 ^ (8 - shift_bits)))
                ELSE 0]
    IN  IF bs.carry # 0 THEN bigint_panic
        ELSE IF d.kind # "ok" THEN d
        ELSE IF d.r[0] % (mask + 1) # 0 THEN bigint_panic
        ELSE [kind |-> "ok",
              q |-> [k \in 1..WIDTH_BYTES |-> ToElem(d.q[k - 1])],
              r |-> [k \in 1..WIDTH_BYTES |-> ToElem(r[k - 1])]]

\* A denominator of one limb taken into the division.
bigint_divide_AnyWidth(a_elems, b_elems) ==
    LET a == buffer_of(WIDTH_BYTES * 2, a_elems)
        b == buffer_of(WIDTH_BYTES + 1, b_elems)
        q == buffer_of(WIDTH_BYTES, <<>>)
        n == denominator_width(b, WIDTH_BYTES)
    IN  IF n = 0 THEN bigint_err
        ELSE bigint_divide_wide(a, b, q, n)

bigint_divide(a_elems, b_elems) ==
    LET a == buffer_of(WIDTH_BYTES * 2, a_elems)
        b == buffer_of(WIDTH_BYTES + 1, b_elems)
        q == buffer_of(WIDTH_BYTES, <<>>)
        n == denominator_width(b, WIDTH_BYTES)
    IN  IF n = 0 THEN bigint_err
        ELSE IF n < 2 THEN bigint_err
        ELSE bigint_divide_wide(a, b, q, n)

\* dst.copy_from_slice(src) panics unless the two lengths are equal.
copy_from_slice_ok(dst_len, src) == dst_len = Len(src)

\* "bigintDivide" in call: q copied to outs[..WIDTH_BYTES * 2], r to the rest.
bigint_divide_request(a_elems, b_elems) ==
    /\ Running
    /\ req' = Req("bigintDivide", <<a_elems, b_elems>>)
    /\ LET res == bigint_divide(a_elems, b_elems)
       IN  IF res.kind = "err" THEN ret' = Err
           ELSE IF res.kind = "fatal" THEN abort
           ELSE IF ~copy_from_slice_ok(WIDTH_BYTES * 2, res.q) THEN abort
           ELSE ret' = Ok(res.q \o res.r)
    /\ UNCHANGED <<buf, faults, is_halted, is_flushing, resident_words,
                   insn_counter, segment, history, replay, accums, tables>>

\* The limbs given, followed by zero limbs up to len.
padded(limbs, len) == [k \in 1..len |-> IF k <= Len(limbs) THEN limbs[k] ELSE 0]

\* Denominators: zero, one limb wide, and two or more limbs wide.
BigDenoms ==
    {padded(<<k>>, WIDTH_BYTES) : k \in {0, 1, 2, 255}}
        \cup {padded(l, WIDTH_BYTES) :
                l \in {<<0, 1>>, <<1, 1>>, <<255, 255>>, <<7, 128>>, <<0, 0, 1>>}}
        \cup {[k \in 1..WIDTH_BYTES |-> 255]}

\* Numerators: small ones, and ones whose quotient needs more than
\* WIDTH_BYTES limbs.
BigNumers ==
    {padded(l, WIDTH_BYTES * 2) :
        l \in {<<>>, <<1>>, <<0, 1>>, <<57, 48>>, <<255, 255, 255>>, <<1, 2, 3, 4, 5>>,
               <<0, 0, 0, 0, 1>>}}
        \cup {[k \in 1..(WIDTH_BYTES * 2) |-> 255],
              [k \in 1..(WIDTH_BYTES * 2) |-> k],
              [k \in 1..(WIDTH_BYTES * 2) |-> IF k = WIDTH_BYTES * 2 THEN 1 ELSE 0],
              [k \in 1..(WIDTH_BYTES * 2) |-> IF k = WIDTH_BYTES + 2 THEN 1 ELSE 0]}

BigintDivide == \E a_elems \in BigNumers, b_elems \in BigDenoms :
                    bigint_divide_request(a_elems, b_elems) /\ UNCHANGED peers

\* bigint_divide computes from its arguments alone.
BigintDivideOnce == FirstRequest /\ BigintDivide

SpecBigint == InitOne /\ [][BigintDivideOnce]_vars

(***************************************************************************)
(* MachineContext::syscall_body and syscall_fini                           *)
(***************************************************************************)
\* The queue popped at its back.
pop_front_Back(queue) ==
    [value |-> queue[Len(queue)], rest |-> SubSeq(queue, 1, Len(queue) - 1)]

\* VecDeque::pop_front on a queue that is not empty.
pop_front(queue) == [value |-> Head(queue), rest |-> Tail(queue)]

\* The data words the segment replays, in order.
seg_data == flat_to_guest(seg_syscalls)

\* The request counted, up to one past the segment's data words.
body_counted ==
    body_count' = IF body_count <= Len(seg_data) THEN body_count + 1 ELSE body_count

\* An exhausted data queue reported as an error.
syscall_body_Strict ==
    /\ Running
    /\ req' = Req("syscallBody", <<>>)
    /\ IF syscall_out_data = <<>>
       THEN /\ ret' = Err
            /\ UNCHANGED syscall_out_data
       ELSE /\ ret' = Ok(split_word8(pop_front(syscall_out_data).value))
            /\ syscall_out_data' = pop_front(syscall_out_data).rest
    /\ body_counted
    /\ UNCHANGED <<buf, faults, is_halted, is_flushing, resident_words,
                   insn_counter, segment, history, syscall_out_regs, fini_count,
                   accums, tables>>

\* "syscallBody" in call: pop_front().unwrap_or_default(), split into limbs.
syscall_body ==
    /\ Running
    /\ req' = Req("syscallBody", <<>>)
    /\ IF syscall_out_data = <<>>
       THEN /\ ret' = Ok(split_word8(u32_of(0)))
            /\ UNCHANGED syscall_out_data
       ELSE /\ ret' = Ok(split_word8(pop_front(syscall_out_data).value))
            /\ syscall_out_data' = pop_front(syscall_out_data).rest
    /\ body_counted
    /\ UNCHANGED <<buf, faults, is_halted, is_flushing, resident_words,
                   insn_counter, segment, history, syscall_out_regs, fini_count,
                   accums, tables>>

\* An exhausted register queue answered with a pair of zero words.
syscall_fini_Default ==
    /\ Running
    /\ req' = Req("syscallFini", <<>>)
    /\ IF syscall_out_regs = <<>>
       THEN /\ ret' = Ok(split_word8(u32_of(0)) \o split_word8(u32_of(0)))
            /\ UNCHANGED <<syscall_out_regs, fini_count>>
       ELSE /\ ret' = Ok(split_word8(pop_front(syscall_out_regs).value[1])
                            \o split_word8(pop_front(syscall_out_regs).value[2]))
            /\ syscall_out_regs' = pop_front(syscall_out_regs).rest
            /\ fini_count' = fini_count + 1
    /\ UNCHANGED <<buf, faults, is_halted, is_flushing, resident_words,
                   insn_counter, segment, history, syscall_out_data, body_count,
                   accums, tables>>

\* "syscallFini" in call: pop_front().ok_or(..)?, the pair split into limbs.
syscall_fini ==
    /\ Running
    /\ req' = Req("syscallFini", <<>>)
    /\ IF syscall_out_regs = <<>>
       THEN /\ ret' = Err
            /\ UNCHANGED <<syscall_out_regs, fini_count>>
       ELSE /\ ret' = Ok(split_word8(pop_front(syscall_out_regs).value[1])
                            \o split_word8(pop_front(syscall_out_regs).value[2]))
            /\ syscall_out_regs' = pop_front(syscall_out_regs).rest
            /\ fini_count' = fini_count + 1
    /\ UNCHANGED <<buf, faults, is_halted, is_flushing, resident_words,
                   insn_counter, segment, history, syscall_out_data, body_count,
                   accums, tables>>

SyscallBody == syscall_body /\ UNCHANGED peers
SyscallFini == syscall_fini /\ UNCHANGED peers

\* Record j of a segment: a payload of len words and a register pair, every
\* word telling its record and its place.
SyscallRecord(j, len) ==
    [to_guest |-> [i \in 1..len |-> u32_of(256 * j + i)],
     regs |-> <<u32_of(65536 * j + 1), u32_of(65536 * j + 2)>>]

\* The segments of up to MaxSyscalls records with payloads of up to
\* MaxPayload words.
SyscallRecords ==
    UNION {{[j \in 1..n |-> SyscallRecord(j, lens[j])] :
                lens \in [1..n -> 0..MaxPayload]} : n \in 0..MaxSyscalls}

InitSyscall ==
    \E sc \in SyscallRecords :
        new(MkImage(INSN_ECALL, ecall_HALT, halt_PAUSE),
            [reads |-> {}, writes |-> {}], [kind |-> "Pause", n |-> 0], sc, FALSE)

\* The replay requests among requests that move the machine state.
NextSyscall == SyscallBody \/ SyscallFini \/ Halt \/ GetMajor \/ RamRead

SpecSyscall == InitSyscall /\ [][NextSyscall]_vars

(***************************************************************************)
(* plonk::PlonkAccum: the factors written, the values read back, and how   *)
(* many of them were read.                                                 *)
(***************************************************************************)
PlonkAccum_new == [factors |-> <<>>, elems |-> <<>>, cursor |-> 0]

\* write: one more factor, readable as written until the products are taken.
accum_write(accum, x) ==
    [accum EXCEPT !.factors = Append(@, ToElem(x)), !.elems = Append(@, ToElem(x))]

\* read: the next value; reading past the last one panics.
accum_can_read(accum) == accum.cursor < Len(accum.elems)
accum_read(accum) ==
    [value |-> accum.elems[accum.cursor + 1],
     accum |-> [accum EXCEPT !.cursor = @ + 1]]

\* The product of the first k factors.
RECURSIVE prefix_product(_, _)
prefix_product(factors, k) ==
    IF k = 0 THEN 1 ELSE ToElem(prefix_product(factors, k - 1) * factors[k])

\* The products taken of the values held, products of products on a second call.
accum_calc_prefix_products_InPlace(accum) ==
    [accum EXCEPT !.elems = [k \in 1..Len(accum.elems) |-> prefix_product(accum.elems, k)]]

\* calc_prefix_products: value k becomes the product of the first k factors.
accum_calc_prefix_products(accum) ==
    [accum EXCEPT !.elems = [k \in 1..Len(accum.factors) |->
                                prefix_product(accum.factors, k)]]

(***************************************************************************)
(* MachineContext::plonk_write_accum, plonk_read_accum and                 *)
(* calc_prefix_products                                                    *)
(***************************************************************************)
\* BTreeMap::insert
map_insert(map, name, value) ==
    [k \in DOMAIN map \cup {name} |-> IF k = name THEN value ELSE map[k]]

\* A new accumulator inserted on every write.
plonk_write_accum_Fresh(name, x) ==
    /\ Running
    /\ req' = Req("plonkWriteAccum", <<name, x>>)
    /\ name \in DOMAIN plonk_accum => Len(plonk_accum[name].factors) < MaxAccumLen
    /\ plonk_accum' = map_insert(plonk_accum, name, accum_write(PlonkAccum_new, x))
    /\ ret' = Ok(<<>>)
    /\ calc_runs' = 0
    /\ UNCHANGED <<buf, faults, is_halted, is_flushing, resident_words,
                   insn_counter, segment, history, replay, tables>>

\* "plonkWriteAccum" in call.  An accumulator takes up to MaxAccumLen writes.
plonk_write_accum(name, x) ==
    /\ Running
    /\ req' = Req("plonkWriteAccum", <<name, x>>)
    /\ name \in DOMAIN plonk_accum => Len(plonk_accum[name].factors) < MaxAccumLen
    /\ IF name \in DOMAIN plonk_accum
       THEN plonk_accum' = [plonk_accum EXCEPT ![name] = accum_write(@, x)]
       ELSE plonk_accum' = map_insert(plonk_accum, name, accum_write(PlonkAccum_new, x))
    /\ ret' = Ok(<<>>)
    /\ calc_runs' = 0
    /\ UNCHANGED <<buf, faults, is_halted, is_flushing, resident_words,
                   insn_counter, segment, history, replay, tables>>

\* "plonkReadAccum" in call: an unknown name panics.
plonk_read_accum(name) ==
    /\ Running
    /\ req' = Req("plonkReadAccum", <<name>>)
    /\ IF name \notin DOMAIN plonk_accum
       THEN abort /\ UNCHANGED plonk_accum
       ELSE IF ~accum_can_read(plonk_accum[name])
       THEN abort /\ UNCHANGED plonk_accum
       ELSE /\ ret' = Ok(<<accum_read(plonk_accum[name]).value>>)
            /\ plonk_accum' = [plonk_accum EXCEPT ![name] = accum_read(@).accum]
    /\ UNCHANGED <<buf, faults, is_halted, is_flushing, resident_words,
                   insn_counter, segment, history, replay, tables, calc_runs>>

\* CircuitStepHandler::calc_prefix_products: every accumulator of the map.
calc_prefix_products ==
    /\ Running
    /\ req' = Req("calc_prefix_products", <<>>)
    /\ plonk_accum' = [k \in DOMAIN plonk_accum |->
                          accum_calc_prefix_products(plonk_accum[k])]
    /\ ret' = Ok(<<>>)
    /\ calc_runs' = IF calc_runs < 2 THEN calc_runs + 1 ELSE calc_runs
    /\ UNCHANGED <<buf, faults, is_halted, is_flushing, resident_words,
                   insn_counter, segment, history, replay, tables>>

AccumNames == {"ram", "bytes"}
Factors == {2, 3}

PlonkWriteAccum == \E name \in AccumNames, x \in Factors : plonk_write_accum(name, x) /\ UNCHANGED peers
PlonkReadAccum == \E name \in AccumNames : plonk_read_accum(name) /\ UNCHANGED peers
CalcPrefixProducts == calc_prefix_products /\ UNCHANGED peers

NextPlonk == PlonkWriteAccum \/ PlonkReadAccum \/ CalcPrefixProducts

SpecPlonk == InitOne /\ [][NextPlonk]_vars

(***************************************************************************)
(* MachineContext::log.  A format string is its sequence of characters.    *)
(***************************************************************************)
Digits == {"0", "5"}
FormatSpecs == {"x", "u", "d", "w", "%"}

\* The first index from i on that holds no digit ([0-9]* is greedy).
RECURSIVE skip_digits(_, _)
skip_digits(msg, i) ==
    IF i <= Len(msg) /\ msg[i] \in Digits THEN skip_digits(msg, i + 1) ELSE i

\* regex!("%([0-9]*)([xudw%])") matched at index i: the format character
\* and the index after the match, or no match.
match_at(msg, i) ==
    LET j == skip_digits(msg, i + 1)
    IN  IF msg[i] = "%" /\ j <= Len(msg) /\ msg[j] \in FormatSpecs
        THEN [found |-> TRUE, format |-> msg[j], next |-> j + 1]
        ELSE [found |-> FALSE, format |-> "", next |-> i + 1]

\* Every match counted as one argument.
args_taken_One(format) == IF format = "%" THEN 0 ELSE 1

\* The arguments one match takes with next_arg().
args_taken(format) ==
    CASE format \in {"u", "x", "d"} -> 1
      [] format = "w" -> 4
      [] format = "%" -> 0

\* re.replace_all over msg from index i with args_left arguments left:
\* next_arg() panics when none is left; the result is the number left at
\* the end, or -1 for the panic.
RECURSIVE replace_all(_, _, _)
replace_all(msg, i, args_left) ==
    IF i > Len(msg) THEN args_left
    ELSE LET m == match_at(msg, i)
         IN IF ~m.found THEN replace_all(msg, m.next, args_left)
            ELSE IF args_left < args_taken(m.format) THEN -1
            ELSE replace_all(msg, m.next, args_left - args_taken(m.format))

\* The verbosity left out of account.
log_Always(trace, msg, args) ==
    /\ Running
    /\ req' = Req("log", <<trace, msg, args>>)
    /\ IF replace_all(msg, 1, Len(args)) # 0
       THEN abort
       ELSE ret' = Ok(<<>>)
    /\ UNCHANGED <<buf, faults, is_halted, is_flushing, resident_words,
                   insn_counter, segment, history, replay, accums, tables>>

\* "log" in call.  trace is log::max_level() >= Trace, read at the call;
\* assert_eq!(args_left.len(), 0) panics on arguments left over.
log(trace, msg, args) ==
    /\ Running
    /\ req' = Req("log", <<trace, msg, args>>)
    /\ IF ~trace
       THEN ret' = Ok(<<>>)
       ELSE IF replace_all(msg, 1, Len(args)) # 0
       THEN abort
       ELSE ret' = Ok(<<>>)
    /\ UNCHANGED <<buf, faults, is_halted, is_flushing, resident_words,
                   insn_counter, segment, history, replay, accums, tables>>

\* Format strings of up to MaxMsgLen characters and argument lists of up to
\* MaxLogArgs elements.
MsgChars == {"%", "5", "u", "x", "d", "w", "a"}
Msgs == UNION {[1..n -> MsgChars] : n \in 0..MaxMsgLen}
LogArgs == {[k \in 1..n |-> k] : n \in 0..MaxLogArgs}

Log == \E trace \in BOOLEAN, msg \in Msgs, args \in LogArgs : log(trace, msg, args) /\ UNCHANGED peers

\* A bridge with faults and replay records left, for the requests that
\* are to leave it alone.
InitBusy ==
    new(MkImage(INSN_ECALL, ecall_HALT, halt_PAUSE), [reads |-> {1}, writes |-> {1}],
        [kind |-> "Pause", n |-> 0], <<SyscallRecord(1, 1)>>, FALSE)

\* log computes from its arguments and the verbosity alone.
LogOnce == FirstRequest /\ Log

SpecLog == InitBusy /\ [][LogOnce]_vars

(***************************************************************************)
(* The requests that only compute: "getMinor", "trace", "syscallInit",     *)
(* and the table write "plonkWrite" that moves the permutation tables.     *)
(***************************************************************************)
\* A getMinor that advances the instruction counter as getMajor does.
get_minor_Counts(insn) ==
    /\ Running
    /\ req' = Req("getMinor", <<insn>>)
    /\ LET opcode == decode(merge_word8(insn))
       IN  IF ~opcode.ok THEN ret' = Err /\ UNCHANGED insn_counter
           ELSE /\ ret' = Ok(<<opcode.minor>>)
                /\ insn_counter' = (insn_counter + 1) % (MaxInsn + 1)
    /\ UNCHANGED <<buf, faults, is_halted, is_flushing, resident_words,
                   segment, history, replay, accums, tables>>

get_minor(insn) ==
    /\ Running
    /\ req' = Req("getMinor", <<insn>>)
    /\ LET opcode == decode(merge_word8(insn))
       IN  IF ~opcode.ok THEN ret' = Err ELSE ret' = Ok(<<opcode.minor>>)
    /\ UNCHANGED <<buf, faults, is_halted, is_flushing, resident_words,
                   insn_counter, segment, history, replay, accums, tables>>

trace ==
    /\ Running
    /\ req' = Req("trace", <<>>)
    /\ ret' = Ok(<<>>)
    /\ UNCHANGED <<buf, faults, is_halted, is_flushing, resident_words,
                   insn_counter, segment, history, replay, accums, tables>>

syscall_init ==
    /\ Running
    /\ req' = Req("syscallInit", <<>>)
    /\ ret' = Ok(<<>>)
    /\ UNCHANGED <<buf, faults, is_halted, is_flushing, resident_words,
                   insn_counter, segment, history, replay, accums, tables>>

\* RamPlonk::write and BytesPlonk::write: a table is append-only.
table_write(table, args) == Append(table, args)

\* plonk_write: the tuple is written to the named table; any other name
\* panics.
plonk_write(name, args) ==
    /\ Running
    /\ req' = Req("plonkWrite", <<name, args>>)
    /\ name \in DOMAIN plonk_tables => Len(plonk_tables[name]) < MaxTableLen
    /\ IF name \in {"ram", "bytes"}
       THEN /\ plonk_tables' = [plonk_tables EXCEPT ![name] = table_write(@, args)]
            /\ ret' = Ok(<<>>)
       ELSE /\ abort
            /\ UNCHANGED plonk_tables
    /\ UNCHANGED <<buf, faults, is_halted, is_flushing, resident_words,
                   insn_counter, segment, history, replay, accums>>

MinorInsns == {split_word8(u32_of(INSN_ECALL)), split_word8(u32_of(INSN_ADD)),
               split_word8(u32_of(INSN_ILLEGAL))}
FrameNumers32 == {INT_MIN}
FrameDenoms32 == {u32_of(0), u32_of(3)}
FrameSigns == {1, 2}
FrameDenoms == {padded(<<0>>, WIDTH_BYTES), padded(<<2>>, WIDTH_BYTES),
                padded(<<0, 1>>, WIDTH_BYTES)}
FrameNumers == {padded(<<57, 48>>, WIDTH_BYTES * 2)}
TableNames == {"ram", "accum"}
TableRows == {<<1, 2, 0, 0>>}

GetMinor == \E insn \in MinorInsns : get_minor(insn) /\ UNCHANGED peers
Trace == trace /\ UNCHANGED peers
SyscallInit == syscall_init /\ UNCHANGED peers
PlonkWrite == \E name \in TableNames, args \in TableRows : plonk_write(name, args) /\ UNCHANGED peers
DivideFew == \E numer \in FrameNumers32, denom \in FrameDenoms32,
                sign \in FrameSigns : divide_request(numer, denom, sign) /\ UNCHANGED peers
BigintDivideFew == \E a_elems \in FrameNumers, b_elems \in FrameDenoms :
                       bigint_divide_request(a_elems, b_elems) /\ UNCHANGED peers

\* The requests that move the state between the computing ones.
MoveState ==
    \/ halt(halt_PAUSE) /\ UNCHANGED peers
    \/ get_major(PcBase) /\ UNCHANGED peers
    \/ page_info /\ UNCHANGED peers
    \/ ram_write(DataBase \div WORD_SIZE, <<1, 2, 0, 0>>, PageIo) /\ UNCHANGED peers
    \/ syscall_fini /\ UNCHANGED peers
    \/ plonk_write_accum("ram", 2) /\ UNCHANGED peers
    \/ PlonkWrite

NextFrame ==
    \/ GetMinor
    \/ DivideFew
    \/ BigintDivideFew
    \/ Trace
    \/ SyscallInit
    \/ MoveState

InitFrame ==
    new(MkImage(INSN_ADD, 0, 0), [reads |-> {}, writes |-> {1}],
        [kind |-> "Pause", n |-> 0], <<SyscallRecord(1, 1)>>, FALSE)

SpecFrame == InitFrame /\ [][NextFrame]_vars

(***************************************************************************)
(* Two bridges built from one segment, each driven by its own process.     *)
(* The variables of the bridge hold the bridge of the running process and  *)
(* `parked' holds the other one.  Process 1 issues any requests; process 2 *)
(* issues the same requests in the same order, up to MaxLag requests       *)
(* behind, so that the two can be compared under every interleaving.       *)
(***************************************************************************)
TwoRequest ==
    \/ halt(halt_PAUSE)
    \/ get_major(PcBase)
    \/ page_info
    \/ \E op \in {PageIo, Write} :
           ram_write(DataBase \div WORD_SIZE, <<1, 2, 0, 0>>, op)
    \/ ram_read(DataBase \div WORD_SIZE, Read)
    \/ syscall_fini
    \/ plonk_write_accum("ram", 2)

Leader ==
    /\ turn = 1
    /\ Len(script) < MaxLag
    /\ TwoRequest
    /\ script' = Append(script, [req |-> req', ret |-> ret'])
    /\ UNCHANGED <<parked, turn>>

Follower ==
    /\ turn = 2
    /\ script # <<>>
    /\ TwoRequest
    /\ req' = Head(script).req
    /\ script' = Tail(script)
    /\ UNCHANGED <<parked, turn>>

\* The running process stops and the other one goes on with its own bridge.
Switch ==
    /\ turn' = 3 - turn
    /\ parked' = Bridge
    /\ buf' = parked.buf
    /\ faults' = parked.faults
    /\ is_halted' = parked.is_halted
    /\ is_flushing' = parked.is_flushing
    /\ resident_words' = parked.resident_words
    /\ exit_code' = parked.exit_code
    /\ insn_counter' = parked.insn_counter
    /\ syscall_out_data' = parked.syscall_out_data
    /\ syscall_out_regs' = parked.syscall_out_regs
    /\ plonk_accum' = parked.plonk_accum
    /\ plonk_tables' = parked.plonk_tables
    /\ req' = parked.req
    /\ ret' = parked.ret
    /\ page_io_seen' = parked.page_io_seen
    /\ page_history' = parked.page_history
    /\ page_log' = parked.page_log
    /\ page_unflushed' = parked.page_unflushed
    /\ body_count' = parked.body_count
    /\ fini_count' = parked.fini_count
    /\ calc_runs' = parked.calc_runs
    /\ UNCHANGED <<seg_faults, seg_syscalls, script>>

NextTwo == Leader \/ Follower \/ Switch

SpecTwo == InitBusy /\ [][NextTwo]_vars

(***************************************************************************)
(* Memory requests with more than one value to write, among the requests   *)
(* of the machine.                                                         *)
(***************************************************************************)
WriteLimbs == {<<1, 2, 0, 0>>, <<255, 0, 7, 9>>}

RamWriteAny == \E addr \in RamAddrs, data \in WriteLimbs, op \in MemOps :
                   ram_write(addr, data, op) /\ UNCHANGED peers

NextRam == RamWriteAny \/ RamRead \/ PageInfo \/ GetMajor \/ Halt

SpecRam == InitFrame /\ [][NextRam]_vars

(***************************************************************************)
(* The requests that can return an error, on a segment whose instruction   *)
(* decodes and on one whose instruction does not, among the requests that  *)
(* move the state.                                                         *)
(***************************************************************************)
InitErr ==
    \E code \in {INSN_ADD, INSN_ILLEGAL} :
        new(MkImage(code, 0, 0), [reads |-> {}, writes |-> {1}],
            [kind |-> "Pause", n |-> 0], <<SyscallRecord(1, 1)>>, FALSE)

NextErr == GetMinor \/ BigintDivideFew \/ MoveState

SpecErr == InitErr /\ [][NextErr]_vars

(***************************************************************************)
(* Properties.  A step is the request named by req'.                       *)
(***************************************************************************)
PageFaultOut == Ok(<<"PageFault">>)
Decodes(pc) == LoadOk(buf, pc) /\ decode(load_u32(buf, pc)).ok
MajorAt(pc) == decode(load_u32(buf, pc)).major
IsRam(r) == r.name \in {"ramRead", "ramWrite"}

\* C1 as stated: every getMajor request that is not aborted returns PageFault
\* and keeps insn_counter when a read fault is pending or is_flushing is true
\* after the request, whatever word is stored at pc; otherwise it returns the
\* class the word at pc decodes to and adds 1 to insn_counter.
C1_AnyWordGated ==
    [][(req'.name = "getMajor" /\ ret'.kind # "fatal") =>
          IF faults.reads # {} \/ is_flushing'
          THEN ret' = PageFaultOut /\ insn_counter' = insn_counter
          ELSE Decodes(req'.args[1]) =>
                 /\ ret' = Ok(<<MajorAt(req'.args[1])>>)
                 /\ insn_counter' = insn_counter + 1]_vars

\* C1 amended: a getMajor request returns a value exactly when its instruction
\* loads and decodes; it then returns PageFault and keeps insn_counter when a
\* read fault is pending or is_flushing is true after the request, and
\* otherwise returns the decoded major class and adds exactly 1 to
\* insn_counter.  A request that returns no value changes neither
\* insn_counter nor is_flushing.
C1_MajorGating ==
    [][req'.name = "getMajor" =>
          /\ (ret'.kind = "ok") = Decodes(req'.args[1])
          /\ ret'.kind = "ok" =>
               IF faults.reads # {} \/ is_flushing'
               THEN ret' = PageFaultOut /\ insn_counter' = insn_counter
               ELSE /\ ret' = Ok(<<MajorAt(req'.args[1])>>)
                    /\ ret' # PageFaultOut
                    /\ insn_counter' = insn_counter + 1
          /\ ret'.kind # "ok" =>
               insn_counter' = insn_counter /\ is_flushing' = is_flushing]_vars

\* A flush forced after an instruction was counted: getMajor returned
\* PageFault with no read fault pending.
C1_Witness ==
    /\ req.name = "getMajor"
    /\ ret = PageFaultOut
    /\ is_flushing
    /\ faults.reads = {}
    /\ insn_counter > 0

\* The p of S with exactly i - 1 elements of S above it (below it).
NthLargest(S, i) == CHOOSE p \in S : Cardinality({q \in S : q > p}) = i - 1
NthSmallest(S, i) == CHOOSE p \in S : Cardinality({q \in S : q < p}) = i - 1

\* The i-th output of pageInfo for read faults R and write faults W when every
\* request is issued while flushing.
ExpectedPageInfo(R, W, i) ==
    IF i <= Cardinality(R) THEN <<1, NthLargest(R, i), 0>>
    ELSE IF i <= Cardinality(R) + Cardinality(W)
    THEN <<0, NthSmallest(W, i - Cardinality(R)), 0>>
    ELSE <<0, 0, 1>>

\* C2: when every pageInfo request is issued with is_flushing true, the
\* requests return the segment's read faults once each in descending order,
\* then its write faults once each in ascending order, then (0, 0, 1) on
\* every later request.
C2_PageInfoOrder ==
    (page_history /\ ~page_unflushed) =>
        \A i \in 1..Len(page_log) :
            page_log[i] = ExpectedPageInfo(seg_faults.reads, seg_faults.writes, i)

\* The segment with reads {3, 1, 4} and writes {2, 5}, drained to the end.
C2_Witness ==
    /\ page_history /\ ~page_unflushed
    /\ page_log = << <<1, 4, 0>>, <<1, 3, 0>>, <<1, 1, 0>>, <<0, 2, 0>>,
                     <<0, 5, 0>>, <<0, 0, 1>> >>

\* C3: a ramRead or ramWrite request whose op-kind is not PageIo and that is
\* not aborted was preceded by a PageIo request on the same word address.
C3_PagedInBefore ==
    (IsRam(req) /\ req.args[2] # PageIo /\ ret.kind # "fatal")
        => req.args[1] \in page_io_seen

\* A non-paging read answered for the one word that was paged in.
C3_Witness ==
    /\ req.name = "ramRead"
    /\ req.args[2] = Read
    /\ ret.kind = "ok"
    /\ page_io_seen = {req.args[1]}

\* C4: a PageIo access makes its word address resident and is not aborted for
\* residency; any other access to a word address that is not resident is
\* aborted, and a ramWrite so aborted leaves the memory image as it was.
C4_ResidencyGate ==
    [][IsRam(req') =>
          /\ req'.args[2] = PageIo =>
               /\ req'.args[1] \in resident_words'
               /\ ret'.kind = "fatal" => ~LoadOk(buf, req'.args[1] * WORD_SIZE)
          /\ (req'.args[2] # PageIo /\ req'.args[1] \notin resident_words) =>
               /\ ret' = Fatal
               /\ buf' = buf
               /\ resident_words' = resident_words]_vars

\* A non-paging write was aborted although the other word is resident.
C4_Witness ==
    /\ req.name = "ramWrite"
    /\ req.args[2] = Write
    /\ ret = Fatal
    /\ resident_words # {}
    /\ req.args[1] \notin resident_words

\* C5: is_halted and is_flushing are false at construction and no request
\* sets either back to false.
C5_FlagsMonotonic ==
    /\ ~is_halted /\ ~is_flushing
    /\ [][(is_halted => is_halted') /\ (is_flushing => is_flushing')]_vars

\* A halt request that did not pause, on a bridge that was flushing.
C5_Witness ==
    /\ req = Req("halt", <<halt_TERMINATE>>)
    /\ is_halted /\ is_flushing
    /\ exit_code.kind = "SystemSplit"
    /\ load_u32(buf, PcBase) = u32_of(INSN_ADD)

\* C6: insn_counter starts at 0 and never decreases; it changes only in a
\* getMajor request that returns a class other than PageFault, and then by
\* exactly 1; a getMajor request that returns PageFault or an error, and
\* every other request, leaves it as it was.
C6_CounterAdvance ==
    /\ insn_counter = 0
    /\ [][/\ insn_counter' >= insn_counter
          /\ insn_counter' # insn_counter =>
                /\ insn_counter' = insn_counter + 1
                /\ req'.name = "getMajor"
                /\ ret'.kind = "ok"
                /\ ret' # PageFaultOut
          /\ (req'.name = "getMajor" /\ (ret' = PageFaultOut \/ ret'.kind # "ok"))
                => insn_counter' = insn_counter]_vars

\* getMajor returned PageFault after the counter was advanced twice.
C6_Witness ==
    /\ insn_counter = 2
    /\ req.name = "getMajor"
    /\ ret = PageFaultOut

\* C7: with exit code SystemSplit(n), a getMajor request that starts with
\* insn_counter = n and whose instruction decodes leaves is_flushing true,
\* returns PageFault and keeps insn_counter.
C7_SplitForcesFlush ==
    [][(/\ req'.name = "getMajor"
        /\ Decodes(req'.args[1])
        /\ exit_code.kind = "SystemSplit"
        /\ insn_counter = exit_code.n)
          => /\ is_flushing'
             /\ ret' = PageFaultOut
             /\ insn_counter' = insn_counter]_vars

\* The flush was forced at the split instruction with no PAUSE seen: the
\* instruction is no ECALL and no halt request was made.
C7_Witness ==
    /\ req.name = "getMajor"
    /\ exit_code.kind = "SystemSplit"
    /\ exit_code.n > 0
    /\ insn_counter = exit_code.n
    /\ is_flushing
    /\ ~is_halted
    /\ ret = PageFaultOut
    /\ load_u32(buf, PcBase) = u32_of(INSN_ADD)

\* C8: a getMajor request on an ECALL with T0 = HALT and A0 = PAUSE sets
\* is_flushing and returns PageFault, read faults pending or not; any other
\* getMajor request, under an exit code other than SystemSplit, leaves
\* is_flushing as it was.
C8_PauseEcallFlushes ==
    [][req'.name = "getMajor" =>
          LET pause == /\ Decodes(req'.args[1])
                       /\ MajorAt(req'.args[1]) = "ECall"
                       /\ load_register(buf, REG_T0) = u32_of(ecall_HALT)
                       /\ load_register(buf, REG_A0) = u32_of(halt_PAUSE)
          IN /\ pause => (is_flushing' /\ ret' = PageFaultOut)
             /\ (~pause /\ exit_code.kind # "SystemSplit")
                   => is_flushing' = is_flushing]_vars

\* The PAUSE ecall set is_flushing while a read fault was still pending.
C8_Witness ==
    /\ req.name = "getMajor"
    /\ is_flushing
    /\ ~is_halted
    /\ faults.reads # {}
    /\ ret = PageFaultOut
    /\ exit_code.kind # "SystemSplit"

\* C9 as stated: after any halt request with exit code Terminate, Pause or
\* Split is_halted is true; after any with Pause is_flushing is true too; one
\* with Terminate or Split leaves is_flushing as it was.
C9_AnyPauseFlushes ==
    [][(req'.name = "halt" /\ req'.args[1] \in {halt_TERMINATE, halt_PAUSE, halt_SPLIT})
          => /\ is_halted'
             /\ req'.args[1] = halt_PAUSE => is_flushing'
             /\ req'.args[1] # halt_PAUSE => is_flushing' = is_flushing]_vars

\* C9 amended: after any halt request with exit code Terminate, Pause or Split
\* is_halted is true; after one with Pause on a bridge not yet halted
\* is_flushing is true too; one with Terminate or Split, or on a bridge
\* already halted, leaves is_flushing as it was.
C9_HaltSetsFlags ==
    [][(req'.name = "halt" /\ req'.args[1] \in {halt_TERMINATE, halt_PAUSE, halt_SPLIT})
          => /\ is_halted'
             /\ ret' = Ok(<<>>)
             /\ (req'.args[1] = halt_PAUSE /\ ~is_halted) => is_flushing'
             /\ (req'.args[1] # halt_PAUSE \/ is_halted)
                   => is_flushing' = is_flushing]_vars

\* A Pause halt set both flags on a bridge that was neither halted nor
\* flushing before: its instruction is no ECALL and no split is pending.
C9_Witness ==
    /\ req = Req("halt", <<halt_PAUSE>>)
    /\ is_halted /\ is_flushing
    /\ exit_code.kind = "Terminate"
    /\ load_u32(buf, PcBase) = u32_of(INSN_ADD)

\* C10: pageInfo reports no write fault and leaves the write-fault queue as it
\* was while a read fault is pending or is_flushing is false; with no read
\* fault pending and is_flushing false it returns (0, 0, 1) and leaves both
\* queues as they were, write faults pending or not.
C10_WritesHeldBack ==
    [][req'.name = "pageInfo" =>
         /\ (faults.reads # {} \/ ~is_flushing) =>
               /\ faults'.writes = faults.writes
               /\ ~(ret'.outs[1] = 0 /\ ret'.outs[3] = 0)
         /\ (faults.reads = {} /\ ~is_flushing) =>
               /\ ret' = Ok(<<0, 0, 1>>)
               /\ faults' = faults]_vars

\* pageInfo answered done with every write fault of the segment still queued.
C10_Witness ==
    /\ req.name = "pageInfo"
    /\ ret = Ok(<<0, 0, 1>>)
    /\ ~is_flushing
    /\ faults.reads = {}
    /\ seg_faults.reads # {}
    /\ Cardinality(faults.writes) > 1
    /\ faults.writes = seg_faults.writes


(***************************************************************************)
(* Division checked by multiplying back.                                   *)
(***************************************************************************)
\* x * d + c for one limb d: one limb more than x.
RECURSIVE limbs_scale(_, _, _)
limbs_scale(x, d, c) ==
    IF Len(x) = 0 THEN <<c>>
    ELSE LET t == Head(x) * d + c
         IN <<t % 256>> \o limbs_scale(Tail(x), d, t \div 256)

\* x * y: as many limbs as x and y together.
RECURSIVE limbs_mul(_, _)
limbs_mul(x, y) ==
    IF Len(y) = 0 THEN zeros(Len(x))
    ELSE limbs_add(limbs_scale(x, Head(y), 0) \o zeros(Len(y) - 1),
                   <<0>> \o limbs_mul(x, Tail(y)), 0)

\* n = q * d + r and r < d, for n of Len(q) + Len(d) limbs and r of Len(d).
IsQuotRem(n, d, q, r) ==
    /\ limbs_less(r, d)
    /\ limbs_add(limbs_mul(q, d), r \o zeros(Len(q)), 0) = n

\* The magnitude of an i32 held as a u32: 2^32 - x for a negative x.
minus_u32(x) == limbs_sub(zeros(4), x, 0)
magnitude(x) == IF as_i32_negative(x) THEN minus_u32(x) ELSE x
MinusOne == <<255, 255, 255, 255>>

DivideQuot == SubSeq(ret.outs, 1, 4)
DivideRem == SubSeq(ret.outs, 5, 8)

\* C11: divide by a non-zero divisor returns eight limbs in 0..255; in sign
\* mode 0 they are the unsigned quotient and remainder; in sign mode 1 the
\* quotient is the signed quotient truncated toward zero and the remainder
\* has the numerator's sign, and INT_MIN / -1 gives INT_MIN and 0.
C11_DivideNonZero ==
    (req.name = "divide" /\ req.args[2] # zeros(4) /\ req.args[3] \in {0, 1}) =>
        LET n == req.args[1]
            d == req.args[2]
            q == DivideQuot
            r == DivideRem
            differ == as_i32_negative(n) # as_i32_negative(d)
        IN  /\ ret.kind = "ok"
            /\ Len(ret.outs) = 8
            /\ \A k \in 1..8 : ret.outs[k] \in 0..255
            /\ req.args[3] = 0 => IsQuotRem(n \o zeros(4), d, q, r)
            /\ req.args[3] = 1 =>
                /\ IsQuotRem(magnitude(n) \o zeros(4), magnitude(d),
                             IF differ THEN minus_u32(q) ELSE q,
                             IF as_i32_negative(n) THEN minus_u32(r) ELSE r)
                /\ differ => (q = zeros(4) \/ as_i32_negative(q))
                /\ (~differ /\ ~(n = INT_MIN /\ d = MinusOne)) => ~as_i32_negative(q)
                /\ as_i32_negative(n) => (r = zeros(4) \/ as_i32_negative(r))
                /\ ~as_i32_negative(n) => ~as_i32_negative(r)
                /\ (n = INT_MIN /\ d = MinusOne) => (q = INT_MIN /\ r = zeros(4))

\* INT_MIN was divided by -1 in sign mode 1.
C11_Witness ==
    /\ req = Req("divide", <<INT_MIN, MinusOne, 1>>)
    /\ ret = Ok(INT_MIN \o zeros(4))

\* C12: for every numerator and every sign mode 0, 1, 2, divide by a zero
\* divisor succeeds with quotient 0xFFFFFFFF (four limbs 255) and the
\* numerator itself as remainder.
C12_DivideByZero ==
    (req.name = "divide" /\ req.args[2] = zeros(4)) =>
        /\ req.args[3] \in SignModes
        /\ ret = Ok(MinusOne \o req.args[1])

\* INT_MIN was divided by zero in sign mode 1.
C12_Witness ==
    /\ req.name = "divide"
    /\ req.args[1] = INT_MIN
    /\ req.args[2] = zeros(4)
    /\ req.args[3] = 1
    /\ ret = Ok(MinusOne \o INT_MIN)

BigA == req.args[1]
BigB == req.args[2]
\* The denominator is at least 256: a limb above limb 0 is non-zero.
BigWide == \E k \in 2..WIDTH_BYTES : BigB[k] # 0
\* a div b < 256^WIDTH_BYTES, that is a < b * 256^WIDTH_BYTES.
BigFits == limbs_less(BigA, zeros(WIDTH_BYTES) \o BigB)

\* C13: bigintDivide on a denominator of at least 256 whose quotient fits in
\* WIDTH_BYTES limbs succeeds with q and r such that a = q * b + r, r < b.
C13_BigintQuotRem ==
    (req.name = "bigintDivide" /\ BigWide /\ BigFits) =>
        /\ ret.kind = "ok"
        /\ Len(ret.outs) = WIDTH_BYTES * 2
        /\ IsQuotRem(BigA, BigB, SubSeq(ret.outs, 1, WIDTH_BYTES),
                     SubSeq(ret.outs, WIDTH_BYTES + 1, WIDTH_BYTES * 2))

\* C14: bigintDivide answers a recoverable error, for every numerator, when
\* the denominator is zero and when only its limb 0 is non-zero.
C14_NarrowDenominator ==
    (req.name = "bigintDivide" /\ ~BigWide) => ret = Err

\* The largest numerator was divided by the denominator 255.
C14_Witness ==
    /\ req.name = "bigintDivide"
    /\ BigA = [k \in 1..(WIDTH_BYTES * 2) |-> 255]
    /\ BigB = padded(<<255>>, WIDTH_BYTES)
    /\ ret = Err

\* C15: bigintDivide on a denominator of at least 9 bits whose quotient
\* a div b is 256^WIDTH_BYTES or more answers a recoverable error.
C15_QuotientTooLarge ==
    (req.name = "bigintDivide" /\ BigWide /\ ~BigFits) => ret = Err

\* C16: the k-th syscallFini that succeeds returns the register pair of the
\* k-th record, and the k-th syscallBody returns the k-th word of the
\* payloads concatenated in record order, whatever requests come between.
C16_ReplayInOrder ==
    /\ (req.name = "syscallFini" /\ ret.kind = "ok") =>
          /\ fini_count \in 1..Len(seg_syscalls)
          /\ ret.outs = split_word8(seg_syscalls[fini_count].regs[1])
                            \o split_word8(seg_syscalls[fini_count].regs[2])
    /\ (req.name = "syscallBody" /\ body_count <= Len(seg_data)) =>
          /\ body_count >= 1
          /\ ret = Ok(split_word8(seg_data[body_count]))

\* The second record's pair was returned after three data words were read.
C16_Witness ==
    /\ req.name = "syscallFini"
    /\ ret.kind = "ok"
    /\ fini_count = 2
    /\ body_count = 3
    /\ Len(seg_data) = 4

\* The bridge's fields, histories aside.
BridgeState == <<buf, faults, is_halted, is_flushing, resident_words, exit_code, plonk_tables,
                 insn_counter, syscall_out_data, syscall_out_regs, plonk_accum>>

\* C17: a syscallFini request on an empty register-pair queue returns a
\* recoverable error, writes no output and leaves the bridge as it was.
C17_FiniExhausted ==
    [][(req'.name = "syscallFini" /\ syscall_out_regs = <<>>) =>
          /\ ret' = Err
          /\ ret'.outs = <<>>
          /\ BridgeState' = BridgeState]_vars

\* syscallFini failed after both pairs of a segment had been returned.
C17_Witness ==
    /\ req.name = "syscallFini"
    /\ ret = Err
    /\ fini_count = 2
    /\ Len(seg_syscalls) = 2
    /\ syscall_out_regs = <<>>

\* C18 as stated: a syscallBody request on an empty data queue is reported
\* as a recoverable failure and not answered with a data word.
C18_BodyExhaustedFails ==
    [][(req'.name = "syscallBody" /\ syscall_out_data = <<>>) => ret' = Err]_vars

\* C18: a syscallBody request on an empty data queue succeeds with the word
\* zero, four zero limbs, and leaves the bridge as it was.
C18_BodyExhaustedZero ==
    [][(req'.name = "syscallBody" /\ syscall_out_data = <<>>) =>
          /\ ret' = Ok(<<0, 0, 0, 0>>)
          /\ BridgeState' = BridgeState]_vars

\* syscallBody was answered with zero after the segment's three data words.
C18_Witness ==
    /\ req.name = "syscallBody"
    /\ Len(seg_data) = 3
    /\ body_count = 4
    /\ syscall_out_data = <<>>
    /\ ret = Ok(<<0, 0, 0, 0>>)

AccumName == req'.args[1]
OthersKept == \A k \in DOMAIN plonk_accum \ {AccumName} :
                  k \in DOMAIN plonk_accum' /\ plonk_accum'[k] = plonk_accum[k]

\* C19 as stated: the first plonkWriteAccum or plonkReadAccum request for a
\* name not yet in the map creates the accumulator of that name.
C19_AnyReferenceCreates ==
    [][(req'.name \in {"plonkWriteAccum", "plonkReadAccum"}
            /\ AccumName \notin DOMAIN plonk_accum) =>
          AccumName \in DOMAIN plonk_accum']_vars

\* C19: the map is empty at construction; the first plonkWriteAccum request
\* for a name creates its accumulator and writes the factor to it; a request
\* for a name in the map writes to or reads from the accumulator that is
\* there and creates none; a plonkReadAccum request for a name not in the
\* map is fatal and creates nothing.
C19_CreatedOnFirstWrite ==
    /\ plonk_accum = <<>>
    /\ [][/\ (req'.name = "plonkWriteAccum" /\ AccumName \notin DOMAIN plonk_accum) =>
                /\ DOMAIN plonk_accum' = DOMAIN plonk_accum \cup {AccumName}
                /\ plonk_accum'[AccumName] = accum_write(PlonkAccum_new, req'.args[2])
                /\ OthersKept
          /\ (req'.name = "plonkWriteAccum" /\ AccumName \in DOMAIN plonk_accum) =>
                /\ DOMAIN plonk_accum' = DOMAIN plonk_accum
                /\ plonk_accum'[AccumName]
                       = accum_write(plonk_accum[AccumName], req'.args[2])
                /\ OthersKept
          /\ (req'.name = "plonkReadAccum" /\ AccumName \in DOMAIN plonk_accum) =>
                /\ DOMAIN plonk_accum' = DOMAIN plonk_accum
                /\ plonk_accum'[AccumName].factors = plonk_accum[AccumName].factors
                /\ ret'.kind = "ok" =>
                      ret'.outs = <<accum_read(plonk_accum[AccumName]).value>>
                /\ OthersKept
          /\ (req'.name = "plonkReadAccum" /\ AccumName \notin DOMAIN plonk_accum) =>
                /\ ret' = Fatal
                /\ plonk_accum' = plonk_accum]_vars

\* Two writes to one name and one to the other were followed by reads of both.
C19_Witness ==
    /\ req = Req("plonkReadAccum", <<"ram">>)
    /\ ret = Ok(<<3>>)
    /\ DOMAIN plonk_accum = AccumNames
    /\ plonk_accum["ram"].factors = <<2, 3>>
    /\ plonk_accum["ram"].cursor = 2
    /\ plonk_accum["bytes"].factors = <<3>>
    /\ plonk_accum["bytes"].cursor = 1

\* The values plonkReadAccum returns from here on, for every accumulator.
Readable(map) ==
    [k \in DOMAIN map |-> SubSeq(map[k].elems, map[k].cursor + 1, Len(map[k].elems))]

C21_QuietLog ==
    [][(req'.name = "log" /\ ~req'.args[1]) =>
          /\ ret' = Ok(<<>>)
          /\ BridgeState' = BridgeState]_vars

\* A quiet log request with %w and a single argument succeeded.
C21_Witness ==
    /\ req = Req("log", <<FALSE, <<"%", "w">>, <<1>>>>)
    /\ ret = Ok(<<>>)

\* The arguments the format string msg specifies from index i on: 1 for
\* %u, %x and %d, 4 for %w, 0 for %%, a field width before the letter or not.
RECURSIVE ArgsSpecified(_, _)
ArgsSpecified(msg, i) ==
    IF i > Len(msg) THEN 0
    ELSE IF msg[i] # "%" THEN ArgsSpecified(msg, i + 1)
    ELSE LET after == {j \in (i + 1)..Len(msg) :
                          \A k \in (i + 1)..(j - 1) : msg[k] \in Digits}
             letters == {j \in after : msg[j] \in {"u", "x", "d", "w", "%"}}
         IN IF letters = {} THEN ArgsSpecified(msg, i + 1)
            ELSE LET j == CHOOSE l \in letters : TRUE
                 IN (IF msg[j] = "w" THEN 4 ELSE IF msg[j] = "%" THEN 0 ELSE 1)
                        + ArgsSpecified(msg, j + 1)

\* C22: at trace verbosity a log request succeeds exactly when the argument
\* list is as long as the format string specifies and is fatal otherwise,
\* and in either case changes no bridge state.
C22_TraceLogCount ==
    [][(req'.name = "log" /\ req'.args[1]) =>
          /\ (Len(req'.args[3]) = ArgsSpecified(req'.args[2], 1)) => ret' = Ok(<<>>)
          /\ (Len(req'.args[3]) # ArgsSpecified(req'.args[2], 1)) => ret' = Fatal
          /\ BridgeState' = BridgeState]_vars

\* "%w%u" was logged at trace verbosity with five arguments.
C22_Witness ==
    /\ req = Req("log", <<TRUE, <<"%", "w", "%", "u">>, <<1, 2, 3, 4, 5>>>>)
    /\ ret = Ok(<<>>)

(***************************************************************************)
(* C23: getMinor, divide, bigintDivide, trace and syscallInit leave the    *)
(* whole bridge state unchanged (memory image, fault queues, resident      *)
(* words, syscall queues, flags, insn_counter, tables and accumulators),   *)
(* whether they succeed, return an error or abort.                         *)
(***************************************************************************)
ComputeOnly == {"getMinor", "divide", "bigintDivide", "trace", "syscallInit"}

C23_ComputeOnlyFrame ==
    [][req'.name \in ComputeOnly => BridgeState' = BridgeState]_vars

C23_Witness ==
    /\ req.name = "bigintDivide"
    /\ ret = Err
    /\ is_halted
    /\ resident_words # {}
    /\ plonk_tables.ram # <<>>
    /\ insn_counter > 0

(***************************************************************************)
(* C24: bridges share no mutable state.  For two bridges built from one    *)
(* segment and driven by two processes: no step modifies the segment; a    *)
(* request of one process leaves the other bridge as it was; the second    *)
(* process, issuing the requests of the first under any interleaving, gets *)
(* the outputs the first one got; and once it has issued them all the two  *)
(* bridges are in the same state.                                          *)
(***************************************************************************)
SegmentKept == <<seg_faults, seg_syscalls, exit_code>>' = <<seg_faults, seg_syscalls, exit_code>>
PeerKept == turn' = turn => parked' = parked
SameOutputs == turn = 2 /\ script' # script => ret' = Head(script).ret
SameState == script = <<>> => Bridge = parked

C24_BridgesIndependent ==
    /\ []SameState
    /\ [][SegmentKept /\ PeerKept /\ SameOutputs]_vars

C24_Witness ==
    /\ turn = 2
    /\ script = <<>>
    /\ req.name = "ramRead"
    /\ ret = Ok(<<1, 2, 0, 0>>)
    /\ faults.reads = {}
    /\ seg_faults.reads # {}
    /\ parked.faults = faults
    /\ parked.buf = buf

\* k * d <= m < (k + 1) * d on u32 values: k is the floor of m / d.
IsFloor(m, d, k) ==
    LET wide == m \o zeros(4)
        low == limbs_mul(k, d)
    IN  /\ ~limbs_less(wide, low)
        /\ limbs_less(wide, limbs_add(low, d \o zeros(4), 0))

(***************************************************************************)
(* C25: in sign mode 2 only the numerator is signed and negation is the    *)
(* bit complement.  For a non-zero divisor d read as unsigned, the         *)
(* quotient is floor(n / d) in two's complement: for n < 0 it is negative  *)
(* and its complement is the floor of (-n - 1) / d; for n >= 0 quotient    *)
(* and remainder are the unsigned ones.                                    *)
(***************************************************************************)
C25_OnesComplementFloor ==
    (req.name = "divide" /\ req.args[2] # zeros(4) /\ req.args[3] = 2) =>
        LET n == req.args[1]
            d == req.args[2]
            q == DivideQuot
            r == DivideRem
        IN  /\ ret.kind = "ok"
            /\ as_i32_negative(n) =>
                /\ as_i32_negative(q)
                /\ IsFloor(not_u32(n), d, not_u32(q))
            /\ ~as_i32_negative(n) => IsQuotRem(n \o zeros(4), d, q, r)

\* -3 was divided by 2 in sign mode 2: the quotient is -2.
C25_Witness ==
    /\ req = Req("divide", <<negate(u32_of(3), 0), u32_of(2), 2>>)
    /\ DivideQuot = negate(u32_of(2), 0)

(***************************************************************************)
(* C26: only the first halt request has an effect.  A halt request on a    *)
(* bridge already halted succeeds and changes no state, whatever the exit  *)
(* code (is_flushing is not set); a halt request on a bridge not halted,   *)
(* with an exit code other than Terminate, Pause and Split, aborts and     *)
(* leaves is_halted false.                                                 *)
(***************************************************************************)
C26_FirstHaltOnly ==
    [][req'.name = "halt" =>
          /\ is_halted => (ret' = Ok(<<>>) /\ BridgeState' = BridgeState)
          /\ (~is_halted
                /\ req'.args[1] \notin {halt_TERMINATE, halt_PAUSE, halt_SPLIT})
                => (ret' = Fatal /\ ~is_halted')]_vars

\* An unsupported exit code was accepted by a bridge halted before, and a
\* Pause left such a bridge not flushing.
C26_Witness ==
    /\ req = Req("halt", <<halt_SPLIT + 1>>)
    /\ ret = Ok(<<>>)
    /\ is_halted
    /\ ~is_flushing

\* The word at word address w, and the bytes it is held in.
WordAt(b, w) == load_u32(b, w * WORD_SIZE)
BytesOf(w) == {w * WORD_SIZE + i : i \in 0..(WORD_SIZE - 1)}

(***************************************************************************)
(* C27: memory write/read round trip.  A successful ramWrite of four byte  *)
(* limbs to word w leaves exactly them in word w and every other byte as   *)
(* it was; a successful ramRead of w returns the limbs of word w and       *)
(* leaves the image as it was, as does every request that is no successful *)
(* ramWrite; so a ramRead of w returns the limbs last written to w, and    *)
(* the one that follows the ramWrite does.                                 *)
(***************************************************************************)
C27_WriteReadRoundTrip ==
    [][/\ (req'.name = "ramWrite" /\ ret'.kind = "ok") =>
             /\ WordAt(buf', req'.args[1]) = req'.args[3]
             /\ \A a \in DOMAIN buf \ BytesOf(req'.args[1]) : buf'[a] = buf[a]
       /\ (req'.name = "ramRead" /\ ret'.kind = "ok") =>
             ret'.outs = WordAt(buf, req'.args[1])
       /\ (req'.name # "ramWrite" \/ ret'.kind # "ok") => buf' = buf
       /\ (/\ req.name = "ramWrite" /\ ret.kind = "ok"
           /\ req'.name = "ramRead" /\ ret'.kind = "ok"
           /\ req'.args[1] = req.args[1]) => ret'.outs = req.args[3]]_vars

\* A read of the data word returned the limbs written to it, while the
\* register word holds the limbs of another write.
C27_Witness ==
    /\ req = Req("ramRead", <<DataBase \div WORD_SIZE, Read>>)
    /\ ret = Ok(<<255, 0, 7, 9>>)
    /\ WordAt(buf, get_register_addr(REG_A0) \div WORD_SIZE) = <<1, 2, 0, 0>>

(***************************************************************************)
(* C28: flushing is absorbing for instruction execution.  is_flushing     *)
(* stays true once it is; and every step that ends with is_flushing true,  *)
(* the one that sets it included, leaves insn_counter as it was and, if it *)
(* is a getMajor request that returns a value, returns PageFault.          *)
(***************************************************************************)
C28_FlushingAbsorbs ==
    [][/\ is_flushing => is_flushing'
       /\ is_flushing' =>
             /\ insn_counter' = insn_counter
             /\ (req'.name = "getMajor" /\ ret'.kind = "ok")
                   => ret' = PageFaultOut]_vars

\* A getMajor on a decodable instruction with no read fault pending returned
\* PageFault after a Pause halt had set is_flushing, the counter kept at 1.
C28_Witness ==
    /\ req.name = "getMajor"
    /\ ret = PageFaultOut
    /\ is_flushing /\ is_halted
    /\ insn_counter = 1
    /\ faults.reads = {}
    /\ Decodes(req.args[1])
    /\ MajorAt(req.args[1]) = "Compute0"
    /\ exit_code.kind = "Pause"

(***************************************************************************)
(* C29: no instruction is counted before all read faults are serviced: in  *)
(* every reachable state insn_counter > 0 implies that the read-fault      *)
(* queue is empty.                                                         *)
(***************************************************************************)
C29_CountAfterReads == insn_counter > 0 => faults.reads = {}

\* An instruction was counted on a segment that had read faults.
C29_Witness ==
    /\ insn_counter > 0
    /\ seg_faults.reads # {}
    /\ faults.reads = {}

(***************************************************************************)
(* C30: with the exit code SystemSplit(n), insn_counter <= n in every      *)
(* reachable state.                                                        *)
(***************************************************************************)
C30_CounterWithinSplit == exit_code.kind = "SystemSplit" => insn_counter <= exit_code.n

\* The counter reached the split instruction and getMajor was asked again.
C30_Witness ==
    /\ exit_code = [kind |-> "SystemSplit", n |-> MaxSplit]
    /\ insn_counter = MaxSplit
    /\ req.name = "getMajor"
    /\ ret = PageFaultOut
    /\ is_flushing /\ ~is_halted
    /\ faults.reads = {}

\* The page index a pageInfo request returned, with the queue it came from.
ReturnedRead(outs) == outs[1] = 1 /\ outs[3] = 0
ReturnedWrite(outs) == outs[1] = 0 /\ outs[3] = 0

(***************************************************************************)
(* C31: the fault queues only shrink.  Both queues are subsets of the      *)
(* segment's record in every reachable state; a request other than         *)
(* pageInfo leaves them as they are; a pageInfo request removes the page   *)
(* index it returns, from the queue it names, and nothing else; and no     *)
(* page index is returned twice from one queue.                            *)
(***************************************************************************)
C31_FaultQueuesShrink ==
    /\ [](/\ faults.reads \subseteq seg_faults.reads
          /\ faults.writes \subseteq seg_faults.writes
          /\ \A i, j \in 1..Len(page_log) :
                (i < j /\ page_log[i][3] = 0) => page_log[i] # page_log[j])
    /\ [][/\ req'.name # "pageInfo" => faults' = faults
          /\ req'.name = "pageInfo" =>
                /\ ret'.kind = "ok"
                /\ ReturnedRead(ret'.outs) =>
                      /\ ret'.outs[2] \in faults.reads
                      /\ faults' = [faults EXCEPT !.reads = @ \ {ret'.outs[2]}]
                /\ ReturnedWrite(ret'.outs) =>
                      /\ ret'.outs[2] \in faults.writes
                      /\ faults' = [faults EXCEPT !.writes = @ \ {ret'.outs[2]}]
                /\ ret'.outs[3] # 0 => faults' = faults]_vars

\* Both queues of a segment were drained, one page index at a time.
C31_Witness ==
    /\ seg_faults = [reads |-> {3, 1, 4}, writes |-> {2, 5}]
    /\ faults = [reads |-> {}, writes |-> {5}]
    /\ req.name = "pageInfo"
    /\ ret = Ok(<<0, 2, 0>>)

(***************************************************************************)
(* C32: the resident-word set only grows.  It is empty at construction; a  *)
(* step adds at most the word address of a ramRead or ramWrite request     *)
(* with op-kind PageIo and removes nothing; and a ramRead or ramWrite on a *)
(* word that is resident is not stopped by the residency gate.             *)
(***************************************************************************)
C32_ResidentOnlyGrows ==
    /\ resident_words = {}
    /\ [][/\ resident_words \subseteq resident_words'
          /\ resident_words' # resident_words =>
                /\ req'.name \in {"ramRead", "ramWrite"}
                /\ req'.args[2] = PageIo
                /\ resident_words' = resident_words \cup {req'.args[1]}
          /\ (req'.name \in {"ramRead", "ramWrite"}
                /\ req'.args[1] \in resident_words) => ret'.kind = "ok"]_vars

\* A word paged in before the bridge halted and flushed is read afterwards.
C32_Witness ==
    /\ req = Req("ramRead", <<DataBase \div WORD_SIZE, Read>>)
    /\ ret.kind = "ok"
    /\ resident_words = {DataBase \div WORD_SIZE, get_register_addr(REG_A0) \div WORD_SIZE}
    /\ is_halted /\ is_flushing
    /\ faults = [reads |-> {}, writes |-> {}]
    /\ seg_faults.writes # {}

(***************************************************************************)
(* C33: a request that returns an error result (getMajor or getMinor on an *)
(* undecodable instruction, bigintDivide on a rejected input, syscallFini  *)
(* on an exhausted queue) leaves the whole bridge state as it was.         *)
(***************************************************************************)
C33_ErrorLeavesState ==
    [][ret'.kind = "err" =>
          /\ req'.name \in {"getMajor", "getMinor", "bigintDivide", "syscallFini"}
          /\ BridgeState' = BridgeState]_vars

\* getMajor met an undecodable instruction on a bridge whose memory, queues,
\* tables and accumulators had moved.
C33_Witness ==
    /\ req.name = "getMajor"
    /\ ret = Err
    /\ is_halted /\ is_flushing
    /\ resident_words # {}
    /\ syscall_out_regs = <<>>
    /\ faults.writes = {}
    /\ plonk_tables.ram # <<>>
    /\ "ram" \in DOMAIN plonk_accum

\* The width n of the denominator of the request, its shift, and the
\* numerator's buffer before and after the normalization.
BigWidth == denominator_width(buffer_of(WIDTH_BYTES + 1, BigB), WIDTH_BYTES)
BigShift == leading_zero_bits(BigB[BigWidth], 0)
BigNormalized ==
    LET a1 == normalize_numer(buffer_of(WIDTH_BYTES * 2, BigA), BigShift, 0)
    IN  [k \in 1..(WIDTH_BYTES * 2) |-> a1[k - 1]]

(***************************************************************************)
(* C34: for every numerator of 2W limbs and every denominator of W limbs   *)
(* that is at least 9 bits wide, bigintDivide touches its numerator buffer *)
(* only at indices 0..2W-1 and its denominator buffer only at 0..W, and    *)
(* the normalized numerator is the numerator times 2^shift.                *)
(***************************************************************************)
C34_BuffersInBounds ==
    (req.name = "bigintDivide" /\ BigWide) =>
        /\ digit_loop_indices(BigWidth) \subseteq 0..(WIDTH_BYTES * 2 - 1)
        /\ BigWidth <= WIDTH_BYTES
        /\ BigNormalized \o <<0>> = limbs_scale(BigA, 2 ^ BigShift, 0)
====
